---- MODULE Spec2Model ----
(***************************************************************************)
(* Model of the citation reconciliation core of theke:                     *)
(*   services/enhanced_citation_extractor.py  (ExtractedCitation pipeline) *)
(*   services/citation_extractor.py           (CitationMatch pipeline)     *)
(*   services/openalex_service.py, crossref_service.py,                    *)
(*   services/semantic_scholar_service.py     (provider lookups)           *)
(*                                                                         *)
(* Text is modelled character by character: a Python str is a sequence of  *)
(* one-character strings.  The code tests optional fields by truthiness    *)
(* only ("if cit.title", "not similar_citation.year"), so None and the     *)
(* empty value are one value here: <<>> for str/list fields, "" for the    *)
(* doi, 0 for the year.                                                    *)
(* Fractions are kept exact as <<numerator, denominator>> pairs and        *)
(* confidences are integers in hundredths.                                 *)
(***************************************************************************)
EXTENDS Integers, Sequences, FiniteSets, TLC

-----------------------------------------------------------------------------
(* Bounds *)

\* longest candidate list handed to the merge / dedup engines
MaxLen == 3

\* most references a modelled provider response carries
MaxRefs == 2

\* most search results a modelled provider response carries
MaxHits == 2

\* most markers in the body of a modelled document
MaxMarkers == 2

\* most blocks of a document handed to the Locator alone
MaxBlocks == 4

\* most grammar matches in a references section handed to the Parser
MaxMatches == 2

\* most citations one extraction request finds for a paper
MaxNew == 2

\* most summary jobs created through the API
MaxJobs == 2

\* most runs of process_summary_generation scheduled for one job
MaxRuns == 2

-----------------------------------------------------------------------------
(* str helpers *)

UPPER == <<"A","B","C","D","E","F","G","H","I","J","K","L","M",
           "N","O","P","Q","R","S","T","U","V","W","X","Y","Z">>

LOWER == <<"a","b","c","d","e","f","g","h","i","j","k","l","m",
           "n","o","p","q","r","s","t","u","v","w","x","y","z">>

\* str.lower() on one character
LowerChar(c) ==
    IF \E i \in 1..Len(UPPER) : UPPER[i] = c
    THEN LOWER[CHOOSE i \in 1..Len(UPPER) : UPPER[i] = c]
    ELSE c

\* str.lower()
Lower(s) == [i \in 1..Len(s) |-> LowerChar(s[i])]

IsSpace(c) == c \in {" ", "\t", "\n"}

\* the <<first, last>> index pairs of the maximal whitespace-free runs of s
WordSpans(s) ==
    {p \in (1..Len(s)) \X (1..Len(s)) :
        /\ p[1] <= p[2]
        /\ \A k \in p[1]..p[2] : ~IsSpace(s[k])
        /\ (p[1] = 1 \/ IsSpace(s[p[1] - 1]))
        /\ (p[2] = Len(s) \/ IsSpace(s[p[2] + 1]))}

\* set(s.split())
Words(s) == {SubSeq(s, p[1], p[2]) : p \in WordSpans(s)}

\* s.strip().split()[-1], "" when there is no word
LastWord(s) ==
    IF WordSpans(s) = {} THEN <<>>
    ELSE LET p == CHOOSE q \in WordSpans(s) : \A r \in WordSpans(s) : r[2] <= q[2]
         IN  SubSeq(s, p[1], p[2])

Max(a, b) == IF a >= b THEN a ELSE b

Min(a, b) == IF a <= b THEN a ELSE b

\* exact comparison of the fraction r = <<n, d>> (d > 0) with a / b (b > 0)
FracGT(r, a, b) == r[1] * b > a * r[2]

FracGE(r, a, b) == r[1] * b >= a * r[2]

FracEQ(r, q) == r[1] * q[2] = q[1] * r[2]

-----------------------------------------------------------------------------
(* enhanced_citation_extractor.py: similarity *)

\* EnhancedCitationExtractor._calculate_string_similarity: word-set Jaccard
calculate_string_similarity(s1, s2) ==
    IF s1 = <<>> \/ s2 = <<>> THEN <<0, 1>>
    ELSE LET words1 == Words(s1)
             words2 == Words(s2)
         IN  IF words1 = {} \/ words2 = {} THEN <<0, 1>>
             ELSE <<Cardinality(words1 \cap words2), Cardinality(words1 \cup words2)>>

\* EnhancedCitationExtractor._calculate_author_similarity: every author of
\* authors1 that has some partner in authors2 counts once (the inner break),
\* divided by the longer length
enh_calculate_author_similarity(authors1, authors2) ==
    IF authors1 = <<>> \/ authors2 = <<>> THEN <<0, 1>>
    ELSE LET matches == Cardinality({i \in 1..Len(authors1) :
                            \E j \in 1..Len(authors2) :
                                FracGT(calculate_string_similarity(Lower(authors1[i]),
                                                                   Lower(authors2[j])), 8, 10)})
         IN  <<matches, Max(Len(authors1), Len(authors2))>>

\* EnhancedCitationExtractor._are_similar_citations
are_similar_citations(cit1, cit2) ==
    \/ cit1.doi /= "" /\ cit2.doi /= "" /\ cit1.doi = cit2.doi
    \/ /\ cit1.title /= <<>> /\ cit2.title /= <<>>
       /\ FracGT(calculate_string_similarity(Lower(cit1.title), Lower(cit2.title)), 8, 10)
    \/ /\ cit1.authors /= <<>> /\ cit2.authors /= <<>>
       /\ cit1.year /= 0 /\ cit2.year /= 0
       /\ cit1.year = cit2.year
       /\ FracGT(enh_calculate_author_similarity(cit1.authors, cit2.authors), 7, 10)

-----------------------------------------------------------------------------
(* enhanced_citation_extractor.py: merge *)

\* source_priority literal of _merge_and_deduplicate, .get(source, 0)
source_priority(source) ==
    CASE source = "openalex"         -> 5
      [] source = "crossref"         -> 4
      [] source = "semantic_scholar" -> 3
      [] source = "pdf_extraction"   -> 2
      [] source = "pdf_text"         -> 2
      [] source = "llm"              -> 1
      [] source = "merged"           -> 6
      [] source = "manual"           -> 7
      [] OTHER                       -> 0

\* index of the first entry of merged that the candidate is similar to
\* (the inner for ... break), 0 when there is none
FirstSimilar(citation, merged_) ==
    IF \E k \in 1..Len(merged_) : are_similar_citations(citation, merged_[k])
    THEN CHOOSE k \in 1..Len(merged_) :
            /\ are_similar_citations(citation, merged_[k])
            /\ \A m \in 1..(k - 1) : ~are_similar_citations(citation, merged_[m])
    ELSE 0

\* the merge branch with the confidence taken from the candidate
MergeInto_lastConfidence(similar_citation, citation) ==
    LET current_priority == source_priority(similar_citation.source)
        new_priority     == source_priority(citation.source)
    IN  [title      |-> IF similar_citation.title = <<>> /\ citation.title /= <<>>
                        THEN citation.title ELSE similar_citation.title,
         authors    |-> IF similar_citation.authors = <<>> /\ citation.authors /= <<>>
                        THEN citation.authors ELSE similar_citation.authors,
         year       |-> IF similar_citation.year = 0 /\ citation.year /= 0
                        THEN citation.year ELSE similar_citation.year,
         doi        |-> IF similar_citation.doi = "" /\ citation.doi /= ""
                        THEN citation.doi ELSE similar_citation.doi,
         journal    |-> IF similar_citation.journal = <<>> /\ citation.journal /= <<>>
                        THEN citation.journal ELSE similar_citation.journal,
         source     |-> IF new_priority > current_priority THEN citation.source
                        ELSE IF current_priority > 0 /\ new_priority > 0
                                /\ current_priority = new_priority
                             THEN "merged"
                             ELSE similar_citation.source,
         confidence |-> citation.confidence]

\* the merge branch with a candidate of higher priority overwriting the fields
MergeInto_overwrite(similar_citation, citation) ==
    LET current_priority == source_priority(similar_citation.source)
        new_priority     == source_priority(citation.source)
        take(empty, has) == has /\ (empty \/ new_priority > current_priority)
    IN  [title      |-> IF take(similar_citation.title = <<>>, citation.title /= <<>>)
                        THEN citation.title ELSE similar_citation.title,
         authors    |-> IF take(similar_citation.authors = <<>>, citation.authors /= <<>>)
                        THEN citation.authors ELSE similar_citation.authors,
         year       |-> IF take(similar_citation.year = 0, citation.year /= 0)
                        THEN citation.year ELSE similar_citation.year,
         doi        |-> IF take(similar_citation.doi = "", citation.doi /= "")
                        THEN citation.doi ELSE similar_citation.doi,
         journal    |-> IF take(similar_citation.journal = <<>>, citation.journal /= <<>>)
                        THEN citation.journal ELSE similar_citation.journal,
         source     |-> IF new_priority > current_priority THEN citation.source
                        ELSE IF current_priority > 0 /\ new_priority > 0
                                /\ current_priority = new_priority
                             THEN "merged"
                             ELSE similar_citation.source,
         confidence |-> IF citation.confidence > similar_citation.confidence
                        THEN citation.confidence ELSE similar_citation.confidence]

\* the "if similar_citation:" branch: fill missing fields, arbitrate the
\* source tag, raise the confidence
MergeInto(similar_citation, citation) ==
    LET current_priority == source_priority(similar_citation.source)
        new_priority     == source_priority(citation.source)
    IN  [title      |-> IF similar_citation.title = <<>> /\ citation.title /= <<>>
                        THEN citation.title ELSE similar_citation.title,
         authors    |-> IF similar_citation.authors = <<>> /\ citation.authors /= <<>>
                        THEN citation.authors ELSE similar_citation.authors,
         year       |-> IF similar_citation.year = 0 /\ citation.year /= 0
                        THEN citation.year ELSE similar_citation.year,
         doi        |-> IF similar_citation.doi = "" /\ citation.doi /= ""
                        THEN citation.doi ELSE similar_citation.doi,
         journal    |-> IF similar_citation.journal = <<>> /\ citation.journal /= <<>>
                        THEN citation.journal ELSE similar_citation.journal,
         source     |-> IF new_priority > current_priority THEN citation.source
                        ELSE IF current_priority > 0 /\ new_priority > 0
                                /\ current_priority = new_priority
                             THEN "merged"
                             ELSE similar_citation.source,
         confidence |-> IF citation.confidence > similar_citation.confidence
                        THEN citation.confidence ELSE similar_citation.confidence]

\* one pass of the outer for loop of _merge_and_deduplicate
MergeOne(merged_, citation) ==
    LET k == FirstSimilar(citation, merged_)
    IN  IF k /= 0
        THEN [merged_ EXCEPT ![k] = MergeInto(merged_[k], citation)]
        ELSE Append(merged_, citation)

RECURSIVE MergePrefix(_, _)
\* merged after the first n candidates of citations were processed
MergePrefix(citations_, n) ==
    IF n = 0 THEN <<>>
    ELSE MergeOne(MergePrefix(citations_, n - 1), citations_[n])

\* EnhancedCitationExtractor._merge_and_deduplicate
merge_and_deduplicate(citations_) == MergePrefix(citations_, Len(citations_))

-----------------------------------------------------------------------------
(* citation_extractor.py: similarity *)

RECURSIVE RunLen(_, _, _, _, _, _)
\* length of the common run of a and b that starts at a[i], b[j] and stays
\* inside a[..ahi], b[..bhi]
RunLen(a, b, i, j, ahi, bhi) ==
    IF i <= ahi /\ j <= bhi /\ a[i] = b[j]
    THEN 1 + RunLen(a, b, i + 1, j + 1, ahi, bhi)
    ELSE 0

\* difflib.SequenceMatcher.find_longest_match without junk (isjunk is None and
\* autojunk only acts on sequences of 200 or more elements): <<i, j, k>> with
\* k maximal, then i minimal, then j minimal; k = 0 when nothing matches
find_longest_match(a, b, alo, ahi, blo, bhi) ==
    LET cands == {p \in (alo..ahi) \X (blo..bhi) : a[p[1]] = b[p[2]]}
        len(p) == RunLen(a, b, p[1], p[2], ahi, bhi)
    IN  IF cands = {} THEN <<alo, blo, 0>>
        ELSE LET kmax == CHOOSE k \in {len(p) : p \in cands} :
                            \A q \in cands : len(q) <= k
                 best == {p \in cands : len(p) = kmax}
                 first == CHOOSE p \in best : \A q \in best :
                            p[1] < q[1] \/ (p[1] = q[1] /\ p[2] <= q[2])
             IN  <<first[1], first[2], kmax>>

RECURSIVE matching_size(_, _, _, _, _, _)
\* total size of SequenceMatcher.get_matching_blocks over a[alo..ahi],
\* b[blo..bhi]: the longest block, then the pieces left and right of it
matching_size(a, b, alo, ahi, blo, bhi) ==
    IF alo > ahi \/ blo > bhi THEN 0
    ELSE LET m == find_longest_match(a, b, alo, ahi, blo, bhi)
         IN  IF m[3] = 0 THEN 0
             ELSE m[3] + matching_size(a, b, alo, m[1] - 1, blo, m[2] - 1)
                       + matching_size(a, b, m[1] + m[3], ahi, m[2] + m[3], bhi)

\* SequenceMatcher(None, a, b).ratio() = 2.0 * M / T
SequenceMatcherRatio(a, b) ==
    IF Len(a) + Len(b) = 0 THEN <<1, 1>>
    ELSE <<2 * matching_size(a, b, 1, Len(a), 1, Len(b)), Len(a) + Len(b)>>

\* get_last_name of citation_extractor._calculate_author_similarity
get_last_name(author_name) == Lower(LastWord(author_name))

\* citation_extractor.EnhancedCitationExtractor._calculate_author_similarity:
\* Jaccard of the two sets of last words
ce_calculate_author_similarity(authors1, authors2) ==
    IF authors1 = <<>> \/ authors2 = <<>> THEN <<0, 1>>
    ELSE LET authors1_lastnames == {get_last_name(authors1[i]) : i \in 1..Len(authors1)}
             authors2_lastnames == {get_last_name(authors2[i]) : i \in 1..Len(authors2)}
         IN  <<Cardinality(authors1_lastnames \cap authors2_lastnames),
               Cardinality(authors1_lastnames \cup authors2_lastnames)>>

FracAdd(r, q) == <<r[1] * q[2] + q[1] * r[2], r[2] * q[2]>>

FracScale(r, a, b) == <<r[1] * a, r[2] * b>>

\* citation_extractor.EnhancedCitationExtractor._calculate_similarity:
\* sum(scores) / len(scores) over the weighted components that are present
ce_calculate_similarity(citation1, citation2) ==
    LET hasTitle   == citation1.title /= <<>> /\ citation2.title /= <<>>
        hasAuthors == citation1.authors /= <<>> /\ citation2.authors /= <<>>
        hasYear    == citation1.year /= 0 /\ citation2.year /= 0
        title_sim  == IF hasTitle
                      THEN FracScale(SequenceMatcherRatio(Lower(citation1.title),
                                                          Lower(citation2.title)), 6, 10)
                      ELSE <<0, 1>>
        author_sim == IF hasAuthors
                      THEN FracScale(ce_calculate_author_similarity(citation1.authors,
                                                                    citation2.authors), 3, 10)
                      ELSE <<0, 1>>
        year_sim   == IF hasYear /\ citation1.year = citation2.year
                      THEN <<1, 10>> ELSE <<0, 1>>
        n          == (IF hasTitle THEN 1 ELSE 0) + (IF hasAuthors THEN 1 ELSE 0)
                      + (IF hasYear THEN 1 ELSE 0)
    IN  IF n = 0 THEN <<0, 1>>
        ELSE FracScale(FracAdd(FracAdd(title_sim, author_sim), year_sim), 1, n)

\* the three components of _calculate_similarity that a pair carries
HasTitles(c, d) == c.title /= <<>> /\ d.title /= <<>>

HasAuthors(c, d) == c.authors /= <<>> /\ d.authors /= <<>>

HasYears(c, d) == c.year /= 0 /\ d.year /= 0

-----------------------------------------------------------------------------
(* citation_extractor.py: confidence of a text-derived candidate *)

\* "c in s"
Contains(s, c) == \E i \in 1..Len(s) : s[i] = c

\* the scorer with the year bonus assigned instead of added
calculate_extraction_confidence_yearAssigned(title, authors, year, journal, doi, raw_text) ==
    LET c1 == 30 + (IF Len(title) > 15 THEN 20 ELSE 0) + (IF Len(title) > 30 THEN 10 ELSE 0)
        c2 == c1 + (IF authors /= <<>> THEN 15 + (IF Len(authors) > 1 THEN 5 ELSE 0) ELSE 0)
        c3 == IF year /= 0 THEN 15 ELSE c2
        c4 == c3 + (IF journal /= <<>> /\ Len(journal) > 5 THEN 10 ELSE 0)
        c5 == c4 + (IF doi /= "" THEN 10 ELSE 0)
        c6 == c5 + (IF Contains(raw_text, "[") /\ Contains(raw_text, "]") THEN 5 ELSE 0)
        c7 == c6 + (IF Contains(raw_text, "(") /\ Contains(raw_text, ")") THEN 5 ELSE 0)
    IN  Min(c7, 90)

\* EnhancedCitationExtractor._calculate_extraction_confidence, in hundredths
calculate_extraction_confidence(title, authors, year, journal, doi, raw_text) ==
    LET c1 == 30 + (IF Len(title) > 15 THEN 20 ELSE 0) + (IF Len(title) > 30 THEN 10 ELSE 0)
        c2 == c1 + (IF authors /= <<>> THEN 15 + (IF Len(authors) > 1 THEN 5 ELSE 0) ELSE 0)
        c3 == c2 + (IF year /= 0 THEN 15 ELSE 0)
        c4 == c3 + (IF journal /= <<>> /\ Len(journal) > 5 THEN 10 ELSE 0)
        c5 == c4 + (IF doi /= "" THEN 10 ELSE 0)
        c6 == c5 + (IF Contains(raw_text, "[") /\ Contains(raw_text, "]") THEN 5 ELSE 0)
        c7 == c6 + (IF Contains(raw_text, "(") /\ Contains(raw_text, ")") THEN 5 ELSE 0)
    IN  Min(c7, 90)

-----------------------------------------------------------------------------
(* Provider lookups: openalex_service.py, semantic_scholar_service.py *)

DIGITS == {"0", "1", "2", "3", "4", "5", "6", "7", "8", "9"}

\* the regex class \w
IsWordChar(c) ==
    \/ \E i \in 1..Len(UPPER) : UPPER[i] = c \/ LOWER[i] = c
    \/ c \in DIGITS
    \/ c = "_"

\* OpenAlexService._normalize_title: every character outside [\w\s] becomes
\* a blank (runs of blanks and the strip do not change the later split)
normalize_title(title) ==
    [i \in 1..Len(title) |-> IF IsWordChar(title[i]) \/ IsSpace(title[i])
                             THEN title[i] ELSE " "]

\* the Jaccard score of _find_best_title_match / _title_similarity
title_jaccard(title1, title2) ==
    LET words1 == Words(Lower(normalize_title(title1)))
        words2 == Words(Lower(normalize_title(title2)))
    IN  IF words1 = {} \/ words2 = {} THEN <<0, 1>>
        ELSE <<Cardinality(words1 \cap words2), Cardinality(words1 \cup words2)>>

\* OpenAlexService._find_best_title_match: index of the first hit with the
\* highest score, 0 (None) unless that score is >= 0.7
find_best_title_match(target_title, works) ==
    LET scored == {k \in 1..Len(works) : works[k].title /= <<>>
                        /\ FracGT(title_jaccard(target_title, works[k].title), 0, 1)}
    IN  IF scored = {} THEN 0
        ELSE LET best == CHOOSE k \in scored :
                            \A m \in scored :
                                LET sk == title_jaccard(target_title, works[k].title)
                                    sm == title_jaccard(target_title, works[m].title)
                                IN  \/ sk[1] * sm[2] > sm[1] * sk[2]
                                    \/ (sk[1] * sm[2] = sm[1] * sk[2] /\ k <= m)
             IN  IF FracGE(title_jaccard(target_title, works[best].title), 7, 10)
                 THEN best ELSE 0

\* SemanticScholarService.search_paper_by_title: the first hit scoring above
\* 0.7, else the first hit, 0 (None) when there is no hit
search_paper_by_title(title, papers) ==
    IF \E k \in 1..Len(papers) : FracGT(title_jaccard(title, papers[k].title), 7, 10)
    THEN CHOOSE k \in 1..Len(papers) :
            /\ FracGT(title_jaccard(title, papers[k].title), 7, 10)
            /\ \A m \in 1..(k - 1) : ~FracGT(title_jaccard(title, papers[m].title), 7, 10)
    ELSE IF papers /= <<>> THEN 1 ELSE 0

\* the references that are not bad, in order
RECURSIVE SkipBad(_)
SkipBad(refs) ==
    IF refs = <<>> THEN <<>>
    ELSE IF refs[1].bad THEN SkipBad(Tail(refs))
         ELSE <<refs[1]>> \o SkipBad(Tail(refs))

\* the references in front of the first one whose conversion raises
RECURSIVE PrefixBeforeBad(_)
PrefixBeforeBad(refs) ==
    IF refs = <<>> \/ refs[1].bad THEN <<>>
    ELSE <<refs[1]>> \o PrefixBeforeBad(Tail(refs))

AnyBad(refs) == \E i \in 1..Len(refs) : refs[i].bad

\* the candidate an adapter builds from one provider reference
Converted(ref, source, confidence) ==
    [ref.cit EXCEPT !.source = source, !.confidence = confidence]

ConvertAll(refs, source, confidence) ==
    [i \in 1..Len(refs) |-> Converted(refs[i], source, confidence)]

\* enhanced_citation_extractor._extract_from_crossref / _openalex /
\* _semantic_scholar after the work was found: the conversion loop runs
\* inside the try block and the handler falls through to "return citations",
\* so a record that raises ends the loop and what was appended is returned
enh_extract_references(refs, source) == ConvertAll(PrefixBeforeBad(refs), source, 0)

\* openalex_service.get_work_references + citation_extractor
\* ._extract_from_openalex: a reference whose own request fails is skipped by
\* _get_works_batch, the others are converted with confidence 0.9
openalex_extract_references(refs) == ConvertAll(SkipBad(refs), "openalex", 90)

\* semantic_scholar_service.get_paper_references: the loop is inside the try
\* block and the handler returns [], so one bad record empties the result
s2_extract_references(refs) ==
    IF AnyBad(refs) THEN <<>> ELSE ConvertAll(refs, "semantic_scholar", 80)

-----------------------------------------------------------------------------
(* enhanced_citation_extractor.py: extract_citations_comprehensive *)

\* the keys of every entry of self.citation_patterns
CitationPatternKeys == {"pattern", "groups"}

\* _extract_citations_from_text on a section whose entries parse to entries_:
\* the first pass of the pattern loop reads pattern_info["confidence"], and
\* a missing key raises KeyError
extract_citations_from_text(entries_) ==
    IF "confidence" \in CitationPatternKeys
    THEN [raised |-> FALSE, citations |-> entries_]
    ELSE [raised |-> TRUE, citations |-> <<>>]

\* _extract_from_pdf with the reference-section guard dropped: the section
\* parser is entered for every readable text
extract_from_pdf_unguarded(doc_) ==
    LET r == extract_citations_from_text(doc_.entries)
    IN  IF doc_.pdf = "unreadable" THEN [raised |-> FALSE, citations |-> <<>>]
        ELSE IF r.raised THEN r
        ELSE [raised |-> FALSE, citations |-> r.citations \o doc_.inline]

\* _extract_from_pdf: no text gives []; a located reference section is handed
\* to _extract_citations_from_text, and an exception raised there leaves
\* _extract_from_pdf; then the in-body author-year mentions are appended
extract_from_pdf(doc_) ==
    LET r == extract_citations_from_text(doc_.entries)
    IN  IF doc_.pdf = "unreadable" THEN [raised |-> FALSE, citations |-> <<>>]
        ELSE IF doc_.hasRefs /\ r.raised THEN r
        ELSE [raised |-> FALSE,
              citations |-> (IF doc_.hasRefs THEN r.citations ELSE <<>>) \o doc_.inline]

\* position of a source tag in str order (the key of the final sort)
SourceRank(source) ==
    CASE source = "crossref"         -> 1
      [] source = "llm"              -> 2
      [] source = "manual"           -> 3
      [] source = "merged"           -> 4
      [] source = "openalex"         -> 5
      [] source = "pdf_extraction"   -> 6
      [] source = "pdf_text"         -> 7
      [] source = "semantic_scholar" -> 8
      [] OTHER                       -> 9

RECURSIVE SortFrom(_, _)
\* the entries of rank r and above, rank by rank, each rank in list order
SortFrom(cs, r) ==
    IF r > 9 THEN <<>>
    ELSE SelectSeq(cs, LAMBDA c : SourceRank(c.source) = r) \o SortFrom(cs, r + 1)

\* merged_citations.sort(key=lambda x: x.source): a stable sort
SortBySource(cs) == SortFrom(cs, 1)

\* the source tag of the i-th task handed to asyncio.gather
TaskSource(i) ==
    CASE i = 1 -> "crossref"
      [] i = 2 -> "openalex"
      [] i = 3 -> "semantic_scholar"

RECURSIVE GatheredLists(_, _)
\* the loop over api_results: every result that is a list is appended, in
\* task order; an exception object is only printed
GatheredLists(tasks_, n) ==
    IF n = 0 THEN <<>>
    ELSE GatheredLists(tasks_, n - 1)
            \o (IF tasks_[n].state = "returned" THEN tasks_[n].result ELSE <<>>)

-----------------------------------------------------------------------------
(* inline_citation_extractor.py: the marker grammars *)

\* what a pattern gives where it does not match
NoMatch == [stop |-> 0, numbers |-> <<>>]

\* s[i] exists and is the character c
At(s, i, c) == i <= Len(s) /\ s[i] = c

\* the index behind the run of \s that starts at i
SkipWs(s, i) ==
    CHOOSE j \in i..(Len(s) + 1) :
        /\ \A k \in i..(j - 1) : IsSpace(s[k])
        /\ (j <= Len(s) => ~IsSpace(s[j]))

\* the index behind the run of \d that starts at i (i itself when none)
DigitsEnd(s, i) ==
    CHOOSE j \in i..(Len(s) + 1) :
        /\ \A k \in i..(j - 1) : s[k] \in DIGITS
        /\ (j <= Len(s) => s[j] \notin DIGITS)

DigitVal(c) ==
    CASE c = "0" -> 0 [] c = "1" -> 1 [] c = "2" -> 2 [] c = "3" -> 3
      [] c = "4" -> 4 [] c = "5" -> 5 [] c = "6" -> 6 [] c = "7" -> 7
      [] c = "8" -> 8 [] c = "9" -> 9

RECURSIVE IntOf(_, _, _)
\* int() of the digits s[i..j-1]
IntOf(s, i, j) ==
    IF j <= i THEN 0 ELSE IntOf(s, i, j - 1) * 10 + DigitVal(s[j - 1])

\* list(range(a, b + 1))
RangeList(a, b) == [k \in 1..(IF b >= a THEN b - a + 1 ELSE 0) |-> a + k - 1]

\* open \s* (\d+) \s* close, anchored at i
MatchOne(s, i, open, close) ==
    LET a == SkipWs(s, i + 1)
        b == DigitsEnd(s, a)
        c == SkipWs(s, b)
    IN  IF At(s, i, open) /\ b > a /\ At(s, c, close)
        THEN [stop |-> c + 1, numbers |-> <<IntOf(s, a, b)>>]
        ELSE NoMatch

\* open \s* (\d+) \s* sep \s* (\d+) \s* close, anchored at i; numbers holds
\* the two groups
MatchTwo(s, i, open, sep, close) ==
    LET a == SkipWs(s, i + 1)
        b == DigitsEnd(s, a)
        c == SkipWs(s, b)
        d == SkipWs(s, c + 1)
        e == DigitsEnd(s, d)
        f == SkipWs(s, e)
    IN  IF At(s, i, open) /\ b > a /\ At(s, c, sep) /\ e > d /\ At(s, f, close)
        THEN [stop |-> f + 1, numbers |-> <<IntOf(s, a, b), IntOf(s, d, e)>>]
        ELSE NoMatch

RECURSIVE ListTail(_, _, _)
\* (?:\s*,\s*\d+)* \s* \] behind a number that ends at b, nums read so far
ListTail(s, b, nums) ==
    LET c == SkipWs(s, b)
        d == SkipWs(s, c + 1)
        e == DigitsEnd(s, d)
    IN  IF At(s, c, "]") THEN [stop |-> c + 1, numbers |-> nums]
        ELSE IF At(s, c, ",") /\ e > d
             THEN ListTail(s, e, Append(nums, IntOf(s, d, e)))
             ELSE NoMatch

\* \[ \s* (\d+(?:\s*,\s*\d+)*) \s* \], anchored at i, with the numbers of
\* numbers_str.split(',')
MatchList(s, i) ==
    LET a == SkipWs(s, i + 1)
        b == DigitsEnd(s, a)
    IN  IF At(s, i, "[") /\ b > a THEN ListTail(s, b, <<IntOf(s, a, b)>>)
        ELSE NoMatch

\* the patterns list, in order, by pattern_type and separator glyph
MarkerPatterns ==
    << [type |-> "single",       sep |-> ""],
       [type |-> "double",       sep |-> ","],
       [type |-> "range",        sep |-> "-"],
       [type |-> "range",        sep |-> "ndash"],
       [type |-> "range",        sep |-> "mdash"],
       [type |-> "multiple",     sep |-> ","],
       [type |-> "single_paren", sep |-> ""],
       [type |-> "double_paren", sep |-> ","] >>

\* the match of pattern p anchored at i of s
PatternMatch(p, s, i) ==
    CASE p.type = "single"       -> MatchOne(s, i, "[", "]")
      [] p.type = "double"       -> MatchTwo(s, i, "[", p.sep, "]")
      [] p.type = "range"        -> MatchTwo(s, i, "[", p.sep, "]")
      [] p.type = "multiple"     -> MatchList(s, i)
      [] p.type = "single_paren" -> MatchOne(s, i, "(", ")")
      [] p.type = "double_paren" -> MatchTwo(s, i, "(", p.sep, ")")

\* the citation_numbers the loop body builds from a match of pattern p; the
\* parenthesis types reach "else: continue" and build nothing
NumbersOf(p, m) ==
    CASE p.type = "range" -> RangeList(m.numbers[1], m.numbers[2])
      [] OTHER            -> m.numbers

HandledType(p) == p.type \in {"single", "double", "range", "multiple"}

\* character offset of block i of a document (0-based, as match.start())
RECURSIVE Offset(_, _)
Offset(d, i) == IF i <= 1 THEN 0 ELSE Offset(d, i - 1) + d[i - 1].len

\* len(text)
TextLen(d) == Offset(d, Len(d) + 1)

\* the InlineCitation records one pass of "for match in re.finditer(pattern,
\* text)" appends for pattern number k, as a set; text is the blocks 1..last
\* of the document
FoundBy(k, d, last) ==
    LET p == MarkerPatterns[k]
        Hit(b, i) == PatternMatch(p, d[b].chars, i)
    IN  IF ~HandledType(p) THEN {}
        ELSE UNION { { [citation_numbers |-> NumbersOf(p, Hit(b, i)),
                        position         |-> Offset(d, b) + i - 1,
                        raw_len          |-> Hit(b, i).stop - i,
                        pattern          |-> k] :
                          i \in {j \in 1..Len(d[b].chars) : Hit(b, j) /= NoMatch} } :
                     b \in 1..last }

RECURSIVE ByPosition(_)
\* a set of records with distinct positions as the list sorted by position
ByPosition(S) ==
    IF S = {} THEN <<>>
    ELSE LET m == CHOOSE x \in S : \A y \in S : x.position <= y.position
         IN  <<m>> \o ByPosition(S \ {m})

\* "Remove duplicates (same position)" keeps the record appended first, the
\* one of the earliest pattern, then unique_citations.sort(key=position)
UniqueSorted(found_) ==
    ByPosition({ x \in found_ :
                    \A y \in found_ : y.position = x.position => x.pattern <= y.pattern })

RECURSIVE LinksOf_firstNumberOnly(_, _)
\* the linker with one CitationLink per marker, for its first number
LinksOf_firstNumberOnly(inline_, numbers_) ==
    IF inline_ = <<>> THEN <<>>
    ELSE [k \in 1..Min(1, Len(inline_[1].citation_numbers)) |->
            [position   |-> inline_[1].position,
             cite_num   |-> inline_[1].citation_numbers[k],
             resolved   |-> inline_[1].citation_numbers[k] \in numbers_,
             confidence |-> IF inline_[1].citation_numbers[k] \in numbers_
                            THEN 100 ELSE 0]]
         \o LinksOf_firstNumberOnly(Tail(inline_), numbers_)

\* link_citations_to_references: one CitationLink per marker and per number
\* of the marker, in marker order; confidence 1.0 when the lookup finds an
\* entry with that number, else 0.0
RECURSIVE LinksOf(_, _)
LinksOf(inline_, numbers_) ==
    IF inline_ = <<>> THEN <<>>
    ELSE [k \in 1..Len(inline_[1].citation_numbers) |->
            [position   |-> inline_[1].position,
             cite_num   |-> inline_[1].citation_numbers[k],
             resolved   |-> inline_[1].citation_numbers[k] \in numbers_,
             confidence |-> IF inline_[1].citation_numbers[k] \in numbers_
                            THEN 100 ELSE 0]]
         \o LinksOf(Tail(inline_), numbers_)

-----------------------------------------------------------------------------
(* citation_extractor.py: _extract_with_regex (the Parser) and its cleaners *)

WS == {" ", "\t", "\n"}

QUOTES == {"\"", "'"}

\* s without its leading characters of class C
LTrim(s, C) ==
    IF \A i \in 1..Len(s) : s[i] \in C THEN <<>>
    ELSE SubSeq(s, CHOOSE i \in 1..Len(s) :
                        s[i] \notin C /\ \A k \in 1..(i - 1) : s[k] \in C, Len(s))

\* s without its trailing characters of class C
RTrim(s, C) ==
    IF \A i \in 1..Len(s) : s[i] \in C THEN <<>>
    ELSE SubSeq(s, 1, CHOOSE i \in 1..Len(s) :
                        s[i] \notin C /\ \A k \in (i + 1)..Len(s) : s[k] \in C)

\* str.strip()
Strip(s) == LTrim(RTrim(s, WS), WS)

RECURSIVE CollapseWs(_, _)
\* re.sub(r'\s+', ' ', s) from index i on
CollapseWs(s, i) ==
    IF i > Len(s) THEN <<>>
    ELSE IF IsSpace(s[i]) THEN <<" ">> \o CollapseWs(s, SkipWs(s, i))
    ELSE <<s[i]>> \o CollapseWs(s, i + 1)

\* the str p stands in s at index i
StartsAt(s, i, p) == i + Len(p) - 1 <= Len(s) /\ SubSeq(s, i, i + Len(p) - 1) = p

\* "p in s"
HasSub(s, p) == \E i \in 1..Len(s) : StartsAt(s, i, p)

\* s is one or more digits
AllDigits(s) == s /= <<>> /\ \A i \in 1..Len(s) : s[i] \in DIGITS

\* EnhancedCitationExtractor._clean_title
clean_title(title) ==
    LET a == IF title /= <<>> /\ title[1] \in QUOTES
             THEN SubSeq(title, SkipWs(title, 2), Len(title)) ELSE title
        b == IF a /= <<>> /\ a[Len(a)] \in QUOTES
             THEN RTrim(SubSeq(a, 1, Len(a) - 1), WS) ELSE a
        c == RTrim(b, {".", ",", ":", ";"})
    IN  Strip(CollapseWs(c, 1))

\* \d+\s*\(\d+\) anchored at i
VolumeIssueAt(s, i) ==
    LET a == DigitsEnd(s, i)
        b == SkipWs(s, a)
        c == DigitsEnd(s, b + 1)
    IN  a > i /\ At(s, b, "(") /\ c > b + 1 /\ At(s, c, ")")

\* (?:vol\.?|volume)\s*\d anchored at i of the lower-cased text
VolAt(l, i) ==
    \/ /\ StartsAt(l, i, <<"v", "o", "l">>)
       /\ LET a == SkipWs(l, IF At(l, i + 3, ".") THEN i + 4 ELSE i + 3)
          IN  a <= Len(l) /\ l[a] \in DIGITS
    \/ /\ StartsAt(l, i, <<"v", "o", "l", "u", "m", "e">>)
       /\ LET a == SkipWs(l, i + 6)
          IN  a <= Len(l) /\ l[a] \in DIGITS

\* EnhancedCitationExtractor._is_invalid_title
is_invalid_title(title) ==
    LET l == Lower(title)
        p == IF At(l, 2, "p") THEN 3 ELSE 2
        q == SkipWs(l, IF At(l, p, ".") THEN p + 1 ELSE p)
    IN  \/ AllDigits(title)
        \/ HasSub(l, <<"h", "t", "t", "p">>) \/ HasSub(l, <<"w", "w", "w", ".">>)
        \/ StartsAt(l, 1, <<"d", "o", "i", ":">>) \/ StartsAt(title, 1, <<"1", "0", ".">>)
        \/ At(l, 1, "p") /\ q <= Len(l) /\ l[q] \in DIGITS
        \/ VolAt(l, 1) \/ VolumeIssueAt(l, 1)

\* \s+and\s+ (IGNORECASE) anchored at the whitespace s[i]: the index behind it, 0 if none
AndEnd(s, i) ==
    LET a == SkipWs(s, i)
    IN  IF /\ IsSpace(s[i])
           /\ StartsAt(Lower(s), a, <<"a", "n", "d">>)
           /\ a + 3 <= Len(s) /\ IsSpace(s[a + 3])
        THEN SkipWs(s, a + 3) ELSE 0

RECURSIVE SplitAuthors(_, _, _)
\* the separator substitutions (" and ", "&", ";" become ", ") followed by
\* split(","): the pieces of s from index i on, cur being the piece in progress
SplitAuthors(s, i, cur) ==
    IF i > Len(s) THEN <<cur>>
    ELSE IF s[i] \in {",", "&", ";"} THEN <<cur>> \o SplitAuthors(s, i + 1, <<>>)
    ELSE IF AndEnd(s, i) /= 0 THEN <<cur>> \o SplitAuthors(s, AndEnd(s, i), <<>>)
    ELSE SplitAuthors(s, i + 1, Append(cur, s[i]))

RECURSIVE RemoveNumbered(_, _)
\* re.sub(r'\[\d+\]|\(\d+\)', '', s) from index i on
RemoveNumbered(s, i) ==
    IF i > Len(s) THEN <<>>
    ELSE LET e == DigitsEnd(s, i + 1)
         IN  IF \/ At(s, i, "[") /\ e > i + 1 /\ At(s, e, "]")
                \/ At(s, i, "(") /\ e > i + 1 /\ At(s, e, ")")
             THEN RemoveNumbered(s, e + 1)
             ELSE <<s[i]>> \o RemoveNumbered(s, i + 1)

\* len(name.split())
WordCount(s) == Cardinality(WordSpans(s))

\* EnhancedCitationExtractor._normalize_author_name: TRUE when the name is kept
normalize_author_name(name) ==
    LET special == Cardinality({i \in 1..Len(name) :
                        /\ LowerChar(name[i]) \notin {LOWER[k] : k \in 1..Len(LOWER)}
                        /\ name[i] \notin WS \cup {".", "-"}})
    IN  \/ /\ WordCount(name) <= 4
           /\ ~\E i \in 1..Len(name) : DigitsEnd(name, i) >= i + 3
        \/ /\ Len(name) <= 50
           /\ special * 10 <= 3 * Max(Len(name), 1)

\* the clean-up of one piece in the loop of _parse_authors
CleanAuthor(piece) ==
    LET a == RemoveNumbered(piece, 1)
        b == RTrim(LTrim(a, {".", ",", ":", ";", "\"", "'"}),
                   {".", ",", ":", ";", "\"", "'"})
    IN  Strip(CollapseWs(b, 1))

\* EnhancedCitationExtractor._parse_authors
parse_authors(authors_str) ==
    IF Strip(authors_str) = <<>> THEN <<>>
    ELSE LET pieces  == SplitAuthors(authors_str, 1, <<>>)
             authors == SelectSeq([k \in 1..Len(pieces) |-> Strip(pieces[k])],
                                  LAMBDA a : a /= <<>>)
             cleaned == SelectSeq([k \in 1..Len(authors) |-> CleanAuthor(authors[k])],
                            LAMBDA a :
                                /\ Len(a) > 2
                                /\ Lower(a) \notin {<<"e", "t", " ", "a", "l">>,
                                                    <<"e", "t", " ", "a", "l", ".">>,
                                                    <<"o", "t", "h", "e", "r", "s">>}
                                /\ ~AllDigits(a)
                                /\ normalize_author_name(a))
         IN  SubSeq(cleaned, 1, Min(Len(cleaned), 15))

\* the text before the leftmost match of ,?\s*X.*$ where X starts at v
CutBefore(s, v) ==
    LET w == CHOOSE j \in 1..v : /\ \A k \in j..(v - 1) : IsSpace(s[k])
                                 /\ (j > 1 => ~IsSpace(s[j - 1]))
    IN  SubSeq(s, 1, (IF w > 1 /\ s[w - 1] = "," THEN w - 1 ELSE w) - 1)

\* EnhancedCitationExtractor._clean_journal_name
clean_journal_name(journal) ==
    LET l  == Lower(journal)
        a  == IF \E v \in 1..Len(l) : VolAt(l, v)
              THEN CutBefore(journal, CHOOSE v \in 1..Len(l) :
                                VolAt(l, v) /\ \A u \in 1..(v - 1) : ~VolAt(l, u))
              ELSE journal
        b  == IF \E v \in 1..Len(a) : VolumeIssueAt(a, v)
              THEN CutBefore(a, CHOOSE v \in 1..Len(a) :
                                VolumeIssueAt(a, v) /\ \A u \in 1..(v - 1) : ~VolumeIssueAt(a, u))
              ELSE a
    IN  Strip(CollapseWs(RTrim(b, {".", ",", ":", ";"}), 1))

\* a capture that int() turns into a year of 1900..2030 (0: none)
ValidYear(capture) ==
    LET year_int == IntOf(capture, 1, Len(capture) + 1)
    IN  IF capture /= <<>> /\ 1900 <= year_int /\ year_int <= 2030 THEN year_int ELSE 0

\* match.group(0) of a match with the captures m
RawText(m) ==
    <<"[", "1", "]", " ">> \o m.authors
        \o (CASE m.grammar = "simple" ->
                    <<",", " ">> \o m.title \o <<",", " ">> \o m.journal \o <<",", " ">> \o m.year
               [] m.grammar = "flex_paren" ->
                    <<".", " ">> \o m.title \o <<".", " ">> \o m.journal
                        \o <<" ", "(">> \o m.year \o <<")">>
               [] m.grammar = "flex_bare" ->
                    <<".", " ">> \o m.title \o <<".", " ">> \o m.journal \o <<" ">> \o m.year)

\* the body of "for match in matches": the candidate appended for the match m,
\* <<>> when the match is skipped
ParsedFrom(m) ==
    LET authors_str == Strip(m.authors)
        hasGate == m.title /= <<>> /\ (m.year /= <<>> \/ m.authors /= <<>>)
        year    == ValidYear(Strip(m.year))
        title   == clean_title(Strip(m.title))
        authors == parse_authors(authors_str)
        journal == clean_journal_name(Strip(m.journal))
    IN  IF ~hasGate \/ Len(title) < 8 \/ is_invalid_title(title) THEN <<>>
        ELSE <<[title |-> title, authors |-> authors, year |-> year, doi |-> "",
                journal |-> journal, source |-> "pdf_extraction",
                confidence |-> calculate_extraction_confidence(
                                    title, authors, year, journal, "", RawText(m))]>>

\* the sequence s without its k-th element
RemoveAt(s, k) == SubSeq(s, 1, k - 1) \o SubSeq(s, k + 1, Len(s))

RECURSIVE DedupPrefix(_, _)
\* unique_citations of _deduplicate_citations after the first n candidates
DedupPrefix(cs, n) ==
    IF n = 0 THEN <<>>
    ELSE LET u    == DedupPrefix(cs, n - 1)
             dups == {k \in 1..Len(u) : FracGT(ce_calculate_similarity(cs[n], u[k]), 8, 10)}
             k    == CHOOSE d \in dups : \A e \in dups : d <= e
         IN  IF dups = {} THEN Append(u, cs[n])
             ELSE IF cs[n].confidence > u[k].confidence
                  THEN Append(RemoveAt(u, k), cs[n])
                  ELSE u

\* citation_extractor.EnhancedCitationExtractor._deduplicate_citations
deduplicate_citations(cs) == DedupPrefix(cs, Len(cs))

RECURSIVE SortByConfidence(_)
\* cs.sort(key=lambda x: x.confidence, reverse=True): a stable sort
SortByConfidence(cs) ==
    IF cs = <<>> THEN <<>>
    ELSE LET k == CHOOSE i \in 1..Len(cs) :
                    /\ \A j \in 1..Len(cs) : cs[j].confidence <= cs[i].confidence
                    /\ \A j \in 1..(i - 1) : cs[j].confidence < cs[i].confidence
         IN  <<cs[k]>> \o SortByConfidence(RemoveAt(cs, k))

-----------------------------------------------------------------------------
(* inline_citation_extractor.py: _classify_citation_type *)

\* the keyword lists of _classify_citation_type, in the order they are tested
RoleKeywords ==
    << [role |-> "evidence",
        keys |-> << <<"a", "s", " ", "s", "h", "o", "w", "n">>,
                    <<"d", "e", "m", "o", "n", "s", "t", "r", "a", "t", "e", "s">>,
                    <<"p", "r", "o", "v", "e", "s">>,
                    <<"e", "v", "i", "d", "e", "n", "c", "e">>,
                    <<"c", "o", "n", "f", "i", "r", "m", "s">>,
                    <<"v", "a", "l", "i", "d", "a", "t", "e", "s">> >>],
       [role |-> "attribution",
        keys |-> << <<"a", "c", "c", "o", "r", "d", "i", "n", "g", " ", "t", "o">>,
                    <<"s", "t", "a", "t", "e", "s">>,
                    <<"a", "r", "g", "u", "e", "s">>,
                    <<"c", "l", "a", "i", "m", "s">>,
                    <<"p", "r", "o", "p", "o", "s", "e", "s">>,
                    <<"s", "u", "g", "g", "e", "s", "t", "s">>,
                    <<"r", "e", "p", "o", "r", "t", "e", "d">>,
                    <<"f", "o", "u", "n", "d">>,
                    <<"o", "b", "s", "e", "r", "v", "e", "d">> >>],
       [role |-> "comparison",
        keys |-> << <<"s", "i", "m", "i", "l", "a", "r", " ", "t", "o">>,
                    <<"l", "i", "k", "e">>,
                    <<"f", "o", "l", "l", "o", "w", "s">>,
                    <<"b", "u", "i", "l", "d", "s", " ", "o", "n">>,
                    <<"e", "x", "t", "e", "n", "d", "s">>,
                    <<"b", "a", "s", "e", "d", " ", "o", "n">> >>],
       [role |-> "contrast",
        keys |-> << <<"u", "n", "l", "i", "k", "e">>,
                    <<"d", "i", "f", "f", "e", "r", "e", "n", "t">>,
                    <<"c", "o", "n", "t", "r", "a", "s", "t">>,
                    <<"h", "o", "w", "e", "v", "e", "r">>,
                    <<"a", "l", "t", "e", "r", "n", "a", "t", "i", "v", "e", "l", "y">>,
                    <<"i", "n", "s", "t", "e", "a", "d">> >>],
       [role |-> "method",
        keys |-> << <<"m", "e", "t", "h", "o", "d">>,
                    <<"a", "l", "g", "o", "r", "i", "t", "h", "m">>,
                    <<"a", "p", "p", "r", "o", "a", "c", "h">>,
                    <<"t", "e", "c", "h", "n", "i", "q", "u", "e">>,
                    <<"p", "r", "o", "c", "e", "d", "u", "r", "e">>,
                    <<"p", "r", "o", "t", "o", "c", "o", "l">> >>],
       [role |-> "definition",
        keys |-> << <<"d", "e", "f", "i", "n", "e", "d">>,
                    <<"d", "e", "f", "i", "n", "i", "t", "i", "o", "n">>,
                    <<"t", "e", "r", "m", "i", "n", "o", "l", "o", "g", "y">>,
                    <<"c", "o", "n", "c", "e", "p", "t">>,
                    <<"t", "e", "r", "m">>,
                    <<"n", "o", "t", "a", "t", "i", "o", "n">> >>] >>

\* (before + " " + after + " " + sentence).lower()
FullContext(before, after, sentence) ==
    Lower(before \o <<" ">> \o after \o <<" ">> \o sentence)

\* some keyword of the r-th list is a substring of the context
RoleHit(r, full_context) ==
    \E k \in 1..Len(RoleKeywords[r].keys) : HasSub(full_context, RoleKeywords[r].keys[k])

\* InlineCitationExtractor._classify_citation_type: the first list with a hit
classify_citation_type(before, after, sentence) ==
    LET full_context == FullContext(before, after, sentence)
    IN  IF \E r \in 1..Len(RoleKeywords) : RoleHit(r, full_context)
        THEN RoleKeywords[CHOOSE r \in 1..Len(RoleKeywords) :
                            /\ RoleHit(r, full_context)
                            /\ \A q \in 1..(r - 1) : ~RoleHit(q, full_context)].role
        ELSE "reference"

-----------------------------------------------------------------------------
(* citation_extractor.py: _find_references_section (the Locator)

   A document is a sequence of blocks, each a run of whole lines:
     kind  "body" | "heading" | "end" | "entries"
     len   its length in characters
     chars its text, character by character, where the text matters
     pats  for a heading: the numbers of the start patterns that match it
     epat  for an end heading: the number of the end pattern that matches it
     words, ind  len(block.split()) and the number of citation indicators
     entries     the numbers of the "[n] ..." lines of the block            *)

\* len(patterns)
NumHeadingPatterns == 27

\* len(end_patterns)
NumEndPatterns == 4

\* a located section: the characters start..stop-1, the blocks from..upto-1
NoSection == [kind |-> "none", start |-> 0, stop |-> 0, from |-> 0, upto |-> 0]

RECURSIVE MatchesFrom(_, _)
\* all_matches from pattern p on: pattern by pattern, each pattern's matches
\* in document order
MatchesFrom(d, p) ==
    IF p > NumHeadingPatterns THEN <<>>
    ELSE [k \in 1..Len(SelectSeq([i \in 1..Len(d) |-> i],
                        LAMBDA i : d[i].kind = "heading" /\ p \in d[i].pats)) |->
            [block   |-> SelectSeq([i \in 1..Len(d) |-> i],
                            LAMBDA i : d[i].kind = "heading" /\ p \in d[i].pats)[k],
             pattern |-> p]]
         \o MatchesFrom(d, p + 1)

AllMatches(d) == MatchesFrom(d, 1)

\* match.start() > text_length * 0.25
BeyondThreshold(d, m) == 4 * Offset(d, m.block) > TextLen(d)

\* the choice that always takes the last element of all_matches
BestMatch_lastAlways(d, all_matches) == all_matches[Len(all_matches)]

\* best_match: the first element of valid_matches with the least start, or
\* all_matches[-1] when valid_matches is empty
BestMatch(d, all_matches) ==
    LET valid == SelectSeq(all_matches, LAMBDA m : BeyondThreshold(d, m))
    IN  IF valid = <<>> THEN all_matches[Len(all_matches)]
        ELSE valid[CHOOSE k \in 1..Len(valid) :
                      /\ \A j \in 1..Len(valid) :
                            Offset(d, valid[k].block) <= Offset(d, valid[j].block)
                      /\ \A j \in 1..(k - 1) :
                            Offset(d, valid[j].block) > Offset(d, valid[k].block)]

\* best_match.end()
SectionStart(d, m) == Offset(d, m.block) + d[m.block].len

\* re.search(end_pattern, text[start:]) for end pattern e: the first end
\* heading of that pattern behind block b, 0 when there is none
FirstEnd(d, b, e) ==
    IF \E i \in (b + 1)..Len(d) : d[i].kind = "end" /\ d[i].epat = e
    THEN CHOOSE i \in (b + 1)..Len(d) :
            /\ d[i].kind = "end" /\ d[i].epat = e
            /\ \A j \in (b + 1)..(i - 1) : ~(d[j].kind = "end" /\ d[j].epat = e)
    ELSE 0

RECURSIVE EndBlockFrom(_, _, _)
\* the loop over end_patterns from pattern e on: the block whose start is
\* end_pos, Len(d) + 1 for len(text); the loop breaks at the first pattern
\* whose first match lies more than 500 characters behind start
EndBlockFrom(d, b, e) ==
    IF e > NumEndPatterns THEN Len(d) + 1
    ELSE LET i == FirstEnd(d, b, e)
         IN  IF i /= 0 /\ Offset(d, i) - SectionStart(d, [block |-> b]) > 500
             THEN i
             ELSE EndBlockFrom(d, b, e + 1)

RECURSIVE SumOver(_, _, _, _)
\* the sum of field f ("words", "ind") over blocks i..j-1
SumOver(d, i, j, f) ==
    IF i >= j THEN 0
    ELSE (IF f = "words" THEN d[i].words ELSE d[i].ind) + SumOver(d, i + 1, j, f)

\* density < 0.005 and len(references_section) > 1000, for blocks i..j-1
LowDensity(d, i, j) ==
    /\ 1000 * SumOver(d, i, j, "ind") < 5 * Max(SumOver(d, i, j, "words"), 1)
    /\ Offset(d, j) - Offset(d, i) > 1000

\* _find_citation_dense_section: the window with the highest citation
\* density, windows being the blocks; None when no window has an indicator
find_citation_dense_section(d) ==
    LET dense == {i \in 1..Len(d) : d[i].ind > 0}
    IN  IF dense = {} THEN NoSection
        ELSE LET w == CHOOSE i \in dense :
                        \A j \in dense :
                            \/ d[i].ind * Max(d[j].words, 1) > d[j].ind * Max(d[i].words, 1)
                            \/ /\ d[i].ind * Max(d[j].words, 1) = d[j].ind * Max(d[i].words, 1)
                               /\ i <= j
             IN  [kind |-> "dense", start |-> Offset(d, w), stop |-> Offset(d, w + 1),
                  from |-> w, upto |-> w + 1]

\* the part of _find_references_section behind the choice of best_match
SectionFrom(d, best) ==
    LET b == best.block
        e == EndBlockFrom(d, b, 1)
        start == SectionStart(d, best)
        end_pos == Offset(d, e)
        fallback == find_citation_dense_section(d)
    IN  IF LowDensity(d, b + 1, e) /\ fallback /= NoSection THEN fallback
        ELSE IF end_pos - start > 100
             THEN [kind |-> "section", start |-> start, stop |-> end_pos,
                   from |-> b + 1, upto |-> e]
             ELSE NoSection

\* _find_references_section
find_references_section(d) ==
    IF AllMatches(d) = <<>> THEN find_citation_dense_section(d)
    ELSE SectionFrom(d, BestMatch(d, AllMatches(d)))

-----------------------------------------------------------------------------
(* inline_citation_extractor.py: extract_inline_citations *)

RECURSIVE AgreeFor(_, _, _, _, _)
\* the text from block j on starts with the first n characters of the
\* blocks i..upto-1
AgreeFor(d, j, i, upto, n) ==
    IF n <= 0 \/ i >= upto THEN TRUE
    ELSE /\ j <= Len(d)
         /\ d[j] = d[i]
         /\ AgreeFor(d, j + 1, i + 1, upto, n - d[i].len)

\* text.find(ref_section[:100]), as the block the hit starts at
RefStartBlock(d, section) ==
    CHOOSE j \in 1..section.from :
        /\ AgreeFor(d, j, section.from, section.upto, 100)
        /\ \A k \in 1..(j - 1) : ~AgreeFor(d, k, section.from, section.upto, 100)

\* main_text with the test "ref_start > 0" left out
MainTextLast_noGuard(d, section) ==
    IF section.kind = "none" THEN Len(d)
    ELSE RefStartBlock(d, section) - 1

\* main_text, as the number of the last block it holds: text[:ref_start]
\* when ref_start > 0, else the whole text
MainTextLast(d, section) ==
    IF section.kind = "none" THEN Len(d)
    ELSE IF Offset(d, RefStartBlock(d, section)) > 0
         THEN RefStartBlock(d, section) - 1
         ELSE Len(d)

\* the numbers of the "[n]" tokens of s that ref_pattern reads as entries
BracketNumbers(s) ==
    LET hits == SelectSeq([i \in 1..Len(s) |-> i],
                    LAMBDA i : /\ At(s, i, "[")
                               /\ DigitsEnd(s, i + 1) > i + 1
                               /\ At(s, DigitsEnd(s, i + 1), "]"))
    IN  [k \in 1..Len(hits) |-> IntOf(s, hits[k] + 1, DigitsEnd(s, hits[k] + 1))]

RECURSIVE EntryNumbers(_, _, _)
\* _extract_reference_entries on the blocks i..upto-1: the 'number' of each
\* entry, in order
EntryNumbers(d, i, upto) ==
    IF i >= upto THEN <<>>
    ELSE (IF d[i].kind = "entries" THEN d[i].entries ELSE BracketNumbers(d[i].chars))
         \o EntryNumbers(d, i + 1, upto)

\* the keys of ref_lookup
LookupKeys(entries_) == {entries_[k] : k \in 1..Len(entries_)}

-----------------------------------------------------------------------------
(* Candidate records *)

\* ExtractedCitation (context and page_number play no part in the merge)
Cit(t, a, y, d, j, s, c) ==
    [title |-> t, authors |-> a, year |-> y, doi |-> d, journal |-> j,
     source |-> s, confidence |-> c]

TitleA == <<"n", "e", "t", " ", "a">>

TitleB == <<"n", "e", "t", " ", "b">>

TitleC == <<"N", "e", "t", " ", "A">>

AuthorS == <<"J", " ", "S", "m", "i", "t", "h">>

AuthorSr == <<"S", "m", "i", "t", "h", " ", "J">>

AuthorK == <<"K", " ", "L", "e", "e">>

JournalN == <<"N", "a", "t", "u", "r", "e">>

JournalS == <<"S", "c", "i", "e", "n", "c", "e">>

\* sample candidates: every field both present and absent, two works that
\* share authors and year, shared and distinct DOIs, all provider tags
Pool ==
    { Cit(TitleA, <<>>, 0, "", <<>>, "openalex", 90),
      Cit(TitleB, <<AuthorS>>, 2020, "", <<>>, "crossref", 85),
      Cit(TitleA, <<AuthorS>>, 2020, "", JournalN, "pdf_extraction", 50),
      Cit(TitleB, <<>>, 0, "10.1/abc", JournalS, "crossref", 85),
      Cit(TitleC, <<>>, 2021, "10.1/abc", <<>>, "openalex", 90),
      Cit(<<>>, <<AuthorSr, AuthorS>>, 2020, "", <<>>, "pdf_extraction", 40),
      Cit(TitleB, <<AuthorK>>, 2021, "10.2/xyz", JournalN, "semantic_scholar", 80),
      Cit(TitleA, <<AuthorS>>, 2020, "", JournalS, "openalex", 90),
      Cit(<<>>, <<AuthorK>>, 2021, "", <<>>, "pdf_extraction", 40) }

\* Scenario A of the specification
TitleVision == <<"D", "e", "e", "p", " ", "L", "e", "a", "r", "n", "i", "n", "g", " ",
                 "f", "o", "r", " ", "V", "i", "s", "i", "o", "n">>

AuthorSmithJ == <<"S", "m", "i", "t", "h", ",", " ", "J", ".">>

AuthorJSmith == <<"J", ".", " ", "S", "m", "i", "t", "h">>

ScenarioA ==
    << Cit(TitleVision, <<AuthorSmithJ>>, 2020, "", <<>>, "openalex", 90),
       Cit(TitleVision \o <<".">>, <<AuthorJSmith>>, 2020, "", <<>>, "pdf_extraction", 60) >>

\* the candidate lists the merge engine is run on
InputLists == UNION {[1..n -> Pool] : n \in 0..MaxLen} \cup {ScenarioA}

TitleTide == <<"t", "i", "d", "e">>

TitleDiet == <<"d", "i", "e", "t">>

\* two titles that share 4 of their 5 distinct words
TitleFive == <<"a", " ", "b", " ", "c", " ", "d", " ", "e">>

TitleFour == <<"a", " ", "b", " ", "c", " ", "d">>

\* the records the similarity functions are compared on
SimPool ==
    Pool \cup {ScenarioA[1], ScenarioA[2],
               Cit(TitleTide, <<>>, 0, "", <<>>, "crossref", 85),
               Cit(TitleDiet, <<>>, 0, "", <<>>, "pdf_extraction", 50),
               Cit(TitleFive, <<>>, 0, "", <<>>, "openalex", 90),
               Cit(TitleFour, <<>>, 0, "", <<>>, "pdf_extraction", 50),
               Cit(<<>>, <<>>, 0, "", <<>>, "unknown", 0)}

\* a str of n characters
Str(n) == [i \in 1..n |-> "x"]

\* the captures the scorer is called on: titles at and beyond both length
\* steps, 0..2 authors, journals at both sides of the length test, raw text
\* with and without the bracket and parenthesis signals
ParsedInputs ==
    [title    : {Str(8), Str(16), Str(31)},
     authors  : {<<>>, <<AuthorS>>, <<AuthorS, AuthorK>>},
     year     : {0, 2020},
     journal  : {<<>>, Str(3), JournalN},
     doi      : {"", "10.1/abc"},
     raw_text : {<<"x">>, <<"[", "1", "]">>, <<"(", "x", ")">>,
                 <<"[", "1", "]", "(", "x", ")">>}]

\* the document whose references are requested
ReqTitle == <<"a", " ", "b", " ", "c", " ", "d", " ", "e", " ", "f", " ", "g">>

\* search hits: the requested title up to case and punctuation, a title
\* scoring exactly 7/10 against it, and an unrelated one (1/8)
WorkExact == [title |-> <<"A", " ", "b", " ", "c", " ", "d", " ", "e", ",", " ", "f", " ", "g">>]

WorkEdge == [title |-> ReqTitle \o <<" ", "h", " ", "i", " ", "j">>]

WorkFar == [title |-> <<"a", " ", "z">>]

Works == {WorkExact, WorkEdge, WorkFar}

HitLists == UNION {[1..n -> Works] : n \in 0..MaxHits}

\* provider reference records; bad marks a record whose conversion (or, for
\* OpenAlex, whose own request) fails
RawRefs ==
    { [cit |-> Cit(TitleA, <<AuthorS>>, 2020, "", <<>>, "", 0), bad |-> FALSE],
      [cit |-> Cit(TitleB, <<AuthorK>>, 2021, "10.2/xyz", JournalN, "", 0), bad |-> FALSE],
      [cit |-> Cit(TitleA, <<>>, 0, "", <<>>, "", 0), bad |-> TRUE] }

RefLists == UNION {[1..n -> RawRefs] : n \in 0..MaxRefs}

\* the reference lists that name each record once
DistinctRefLists == {l \in RefLists : \A i, j \in 1..Len(l) : l[i] = l[j] => i = j}

\* how one HTTP request can end: a 200 answer, an exception raised by the
\* client, a non-200 status, a body that does not parse
CallOutcomes == {"ok", "conn_error", "timeout", "status", "malformed"}

Adapters == {"enh_crossref", "ce_openalex", "s2_service"}

NoWork == [by |-> "none", title |-> <<>>]

\* an in-body "Author (year)" mention as _extract_inline_citations builds it
InlineMention == Cit(<<>>, <<AuthorS>>, 2020, "", <<>>, "pdf_extraction", 0)

\* the candidate the bibliography entry 'J Smith (2020). "net a." Nature'
\* parses to
SectionEntry == Cit(TitleA, <<AuthorS>>, 2020, "", JournalN, "pdf_extraction", 0)

\* the documents of a request: no PDF, a PDF PyPDF2 cannot read, a readable
\* text with a reference section, and a readable text without one, with or
\* without an in-body mention
Docs ==
    { [pdf |-> "none", hasRefs |-> FALSE, entries |-> <<>>, inline |-> <<>>],
      [pdf |-> "unreadable", hasRefs |-> FALSE, entries |-> <<>>, inline |-> <<>>],
      [pdf |-> "readable", hasRefs |-> TRUE, entries |-> <<SectionEntry>>,
       inline |-> <<InlineMention>>],
      [pdf |-> "readable", hasRefs |-> FALSE, entries |-> <<>>, inline |-> <<>>],
      [pdf |-> "readable", hasRefs |-> FALSE, entries |-> <<>>,
       inline |-> <<InlineMention>>] }

NoTasks == <<>>

PendingTask == [state |-> "pending", result |-> <<>>, matched |-> FALSE, failed |-> FALSE]

\* blocks of modelled documents
Block(kind, len, chars, pats, epat, words, ind, entries) ==
    [kind |-> kind, len |-> len, chars |-> chars, pats |-> pats, epat |-> epat,
     words |-> words, ind |-> ind, entries |-> entries]

\* prose without citation indicators, short and long
BodyS == Block("body", 60, <<>>, {}, 0, 10, 0, <<>>)

BodyL == Block("body", 1200, <<>>, {}, 0, 200, 0, <<>>)

\* prose with citation indicators
BodyC == Block("body", 600, <<>>, {}, 0, 100, 4, <<>>)

\* the heading lines "References", "Bibliography"
HRef == Block("heading", 12, <<>>, {1, 12, 14}, 0, 1, 0, <<>>)

HBib == Block("heading", 14, <<>>, {2}, 0, 1, 0, <<>>)

\* the end heading lines "Appendix", "Acknowledgments"
EApp == Block("end", 10, <<>>, {}, 1, 1, 0, <<>>)

EAck == Block("end", 17, <<>>, {}, 2, 1, 0, <<>>)

\* n numbered entries "[k] Author (year). Title."
Bib(n) == Block("entries", 40 * n, <<>>, {}, 0, 6 * n, 2 * n, [k \in 1..n |-> k])

\* one line of body text that is the marker s
MarkerLine(s) ==
    Block("body", Len(s) + 1, s, {}, 0, 1, Len(BracketNumbers(s)), <<>>)

LocBlocks == {BodyS, BodyL, BodyC, HRef, HBib, EApp, EAck, Bib(7)}

\* an early heading line at 4% and the heading of the bibliography at 81%
ScenarioC == <<BodyS, HRef, BodyL, HRef, Bib(7)>>

LocDocs == UNION {[1..n -> LocBlocks] : n \in 1..MaxBlocks} \cup {ScenarioC}

\* the marker [3,5-7]
MarkerD == <<"[", "3", ",", "5", "-", "7", "]">>

MarkerPool ==
    { MarkerD,
      <<"[", "1", "]">>,
      <<"[", " ", "2", " ", "]">>,
      <<"[", "1", ",", "2", "]">>,
      <<"[", "5", "-", "7", "]">>,
      <<"[", "5", "-", "3", "]">>,
      <<"[", "2", "ndash", "4", "]">>,
      <<"[", "1", ",", "2", ",", "3", "]">>,
      <<"(", "1", ")">> }

MarkerRuns == UNION {[1..n -> {MarkerLine(s) : s \in MarkerPool}] : n \in 1..MaxMarkers}

\* marker lines, with or without prose in front, alone or in front of a
\* bibliography
InlineDocs ==
    { head \o ms \o tail :
        head \in {<<>>, <<BodyS>>}, ms \in MarkerRuns,
        tail \in {<<>>, <<HRef, Bib(7)>>, <<HRef, Bib(3)>>} }

\* the capture groups of one regex match of _extract_with_regex.  grammar
\* names the pattern: "simple"  [n] Authors, Title, Journal, Year  (field year),
\* "flex_paren"  [n] Authors. Title. Journal (Year)  (field year1),
\* "flex_bare"  [n] Authors. Title. Journal Year  (field year2)
Capture(g, a, t, j, y) ==
    [grammar |-> g, authors |-> a, title |-> t, journal |-> j, year |-> y]

TitleDeep == <<"D", "e", "e", "p", " ", "l", "e", "a", "r", "n", "i", "n", "g", " ",
               "m", "e", "t", "h", "o", "d", "s">>

TitleQuoted == <<"\"", "D", "e", "e", "p", " ", "n", "e", "t", "s", " ", "n", "o", "w", "\"">>

TitleShort == <<"S", "h", "o", "r", "t">>

TitlePages == <<"p", "p", " ", "1", "2", " ", "o", "f", " ", "i", "t">>

AuthorsEtAl == <<"e", "t", " ", "a", "l">>

AuthorsTwo == AuthorS \o <<" ", "a", "n", "d", " ">> \o AuthorK

JournalVol == JournalN \o <<" ", "v", "o", "l", " ", "3">>

JournalIssue == JournalS \o <<" ", "4", "(", "2", ")">>

Y1850 == <<"1", "8", "5", "0">>

Y1900 == <<"1", "9", "0", "0">>

Y2020 == <<"2", "0", "2", "0">>

Y2031 == <<"2", "0", "3", "1">>

\* sample matches: a full entry, entries whose author capture is only
\* "et al" or a number, years in and out of 1900..2030, titles that are too
\* short or look like a page range, and two entries of one work
MatchPool ==
    { Capture("simple", AuthorS, TitleDeep, JournalN, Y2020),
      Capture("simple", AuthorsEtAl, TitleDeep, JournalN, Y1850),
      Capture("simple", AuthorS, TitleShort, JournalN, Y2020),
      Capture("flex_paren", AuthorsEtAl, TitleDeep, JournalS, Y2031),
      Capture("flex_bare", AuthorsTwo, TitleQuoted, JournalVol, Y2020),
      Capture("simple", <<"1", "2">>, TitleDeep, JournalIssue, Y1900),
      Capture("simple", AuthorS, TitlePages, JournalN, Y2020),
      Capture("flex_paren", AuthorK, TitleDeep, JournalN, Y1850) }

\* the matches re.finditer yields on one references section
MatchLists == UNION {[1..n -> MatchPool] : n \in 0..MaxMatches}

\* every keyword of every role
AllKeywords ==
    UNION {{RoleKeywords[r].keys[k] : k \in 1..Len(RoleKeywords[r].keys)} :
                r \in 1..Len(RoleKeywords)}

\* a sentence without any keyword
PlainSentence == <<"W", "e", " ", "u", "s", "e", " ", "i", "t">>

\* the sentences handed to the classifier: one keyword alone, or no keyword
RoleSentences == AllKeywords \cup {PlainSentence}

\* the text before and behind the marker: empty or a word without a keyword
RoleBefore == {<<>>, <<"S", "e", "e">>}

RoleAfter == {<<>>, <<"t", "o", "o">>}

-----------------------------------------------------------------------------
(* State *)

VARIABLES
    citations,   \* _merge_and_deduplicate: the argument list
    merged,      \* _merge_and_deduplicate: the local list merged
    pos,         \* 1-based index of the next candidate of the for loop
    home,        \* home[i]: index in merged of the entry candidate i went to
    run,         \* 1: run on the input, 2: re-run on the first run's output
    firstOut,    \* what run 1 returned
    mpc          \* "loop" | "returned"

mergeVars == <<citations, merged, pos, home, run, firstOut, mpc>>

VARIABLES
    cit1, cit2,  \* the two records being compared
    sim12,       \* _calculate_similarity(cit1, cit2)
    sim21,       \* _calculate_similarity(cit2, cit1)
    same12,      \* _are_similar_citations(cit1, cit2)
    same21,      \* _are_similar_citations(cit2, cit1)
    spc          \* "start" | "compared"

simVars == <<cit1, cit2, sim12, sim21, same12, same21, spc>>

VARIABLES
    parsed,      \* the captures of one grammar match handed to the scorer
    score,       \* _calculate_extraction_confidence of parsed
    prevScore,   \* the score before the last field was supplied
    supplied,    \* the field supplied last, "" before any
    cpc          \* "start" | "scored"

confVars == <<parsed, score, prevScore, supplied, cpc>>

VARIABLES
    areq,        \* the adapter's arguments: paper title and doi
    adapter,     \* which adapter is running
    apc,         \* "call" | "doi" | "search" | "refs" | "done"
    awork,       \* the provider document the adapter settled on, and how
    aresult,     \* the list the adapter returned
    araised,     \* an exception left the adapter
    afaults      \* the provider failures met on the way

adapterVars == <<areq, adapter, apc, awork, aresult, araised, afaults>>

VARIABLES
    doc,           \* the PDF behind pdf_path
    preq,          \* paper_title and paper_doi
    ppc,           \* "phase1" | "phase2" | "gather" | "merge" | "done"
    pdf_citations, \* what Phase 1 added to all_citations
    tasks,         \* the coroutines handed to asyncio.gather
    all_citations, \* the local list all_citations
    pout,          \* the list extract_citations_comprehensive returned
    praised        \* an exception left extract_citations_comprehensive

pipeVars == <<doc, preq, ppc, pdf_citations, tasks, all_citations, pout, praised>>

VARIABLES
    ldoc,          \* the text handed to _find_references_section
    lpc,           \* "headings" | "choose" | "cut" | "located"
    all_matches,   \* the local list all_matches
    best_match,    \* the local best_match
    lsection       \* what _find_references_section returned

locVars == <<ldoc, lpc, all_matches, best_match, lsection>>

VARIABLES
    ipc,               \* "locate" | "scan" | "entries" | "returned" | "linked"
    ipat,              \* number of the marker pattern the loop is at
    found,             \* the local list inline_citations, as a set
    inline_citations,  \* the markers extract_inline_citations returned
    reference_entries, \* the entry numbers it returned
    citation_links     \* what link_citations_to_references returned

inlineVars == <<ipc, ipat, found, inline_citations, reference_entries, citation_links>>

VARIABLES
    pmatches,    \* _extract_with_regex: the matches of the pattern loop, in order
    pidx,        \* 1-based index of the next match
    pcitations,  \* the local list citations, then the returned list
    xpc          \* "loop" | "returned"

parseVars == <<pmatches, pidx, pcitations, xpc>>

VARIABLES
    rbefore, rafter, rsentence,  \* the arguments of _classify_citation_type
    rtype,                       \* the CitationType value it returned
    rpc                          \* "start" | "classified"

roleVars == <<rbefore, rafter, rsentence, rtype, rpc>>

VARIABLES
    stored,   \* the rows of the citations table whose citing_paper_id is the paper
    sbefore,  \* the same rows when the latest request arrived
    sreq,     \* the latest request and what its extraction found
    sresp     \* the HTTP status of its response; 0 before the first request

storeVars == <<stored, sbefore, sreq, sresp>>

VARIABLES
    job,      \* the rows of the jobs table, NoJob before the API call creates one
    tpc,      \* per job, the position of each scheduled run of process_summary_generation
    running,  \* the <<job, run>> holding the event loop, <<>> when it is free
    calls,    \* per job, how many times generate_summary was called
    clock     \* per job, datetime.utcnow() counted in status updates of the job

jobVars == <<job, tpc, running, calls, clock>>

moreVars == <<parseVars, roleVars, storeVars, jobVars>>

vars == <<mergeVars, simVars, confVars, adapterVars, pipeVars, locVars, inlineVars, moreVars>>

\* the part of the state a specification does not use stays at these values
MergeIdle ==
    /\ citations = <<>> /\ merged = <<>> /\ pos = 0 /\ home = <<>>
    /\ run = 0 /\ firstOut = <<>> /\ mpc = "idle"

SimIdle ==
    /\ cit1 = <<>> /\ cit2 = <<>> /\ sim12 = <<0, 1>> /\ sim21 = <<0, 1>>
    /\ same12 = FALSE /\ same21 = FALSE /\ spc = "idle"

ConfIdle ==
    /\ parsed = <<>> /\ score = 0 /\ prevScore = 0 /\ supplied = "" /\ cpc = "idle"

AdapterIdle ==
    /\ areq = <<>> /\ adapter = "" /\ apc = "idle" /\ awork = NoWork
    /\ aresult = <<>> /\ araised = FALSE /\ afaults = {}

PipeIdle ==
    /\ doc = <<>> /\ preq = <<>> /\ ppc = "idle" /\ pdf_citations = <<>>
    /\ tasks = NoTasks /\ all_citations = <<>> /\ pout = <<>> /\ praised = FALSE

NoBest == [block |-> 0, pattern |-> 0]

LocIdle ==
    /\ ldoc = <<>> /\ lpc = "idle" /\ all_matches = <<>> /\ best_match = NoBest
    /\ lsection = NoSection

InlineIdle ==
    /\ ipc = "idle" /\ ipat = 0 /\ found = {} /\ inline_citations = <<>>
    /\ reference_entries = <<>> /\ citation_links = <<>>

TextIdle == LocIdle /\ InlineIdle

ParseIdle == pmatches = <<>> /\ pidx = 0 /\ pcitations = <<>> /\ xpc = "idle"

RoleIdle ==
    /\ rbefore = <<>> /\ rafter = <<>> /\ rsentence = <<>> /\ rtype = "" /\ rpc = "idle"

NoRequest == [endpoint |-> "", direction |-> "", method |-> "", extracted |-> <<>>]

StoreIdle == stored = <<>> /\ sbefore = <<>> /\ sreq = NoRequest /\ sresp = 0

NoJob == [status |-> "none", progress |-> 0, started_at |-> 0, completed_at |-> 0]

JobIdle ==
    /\ job = [j \in 1..MaxJobs |-> NoJob]
    /\ tpc = [j \in 1..MaxJobs |-> [t \in 1..MaxRuns |-> "none"]]
    /\ running = <<>> /\ calls = [j \in 1..MaxJobs |-> 0]
    /\ clock = [j \in 1..MaxJobs |-> 0]

MoreIdle == ParseIdle /\ RoleIdle /\ StoreIdle /\ JobIdle

\* every later group but g is idle
MoreIdleBut(g) ==
    /\ g = "parse" \/ ParseIdle
    /\ g = "role" \/ RoleIdle
    /\ g = "store" \/ StoreIdle
    /\ g = "job" \/ JobIdle

CoreIdle == MergeIdle /\ SimIdle /\ ConfIdle /\ AdapterIdle /\ PipeIdle /\ TextIdle

notMerge == <<simVars, confVars, adapterVars, pipeVars, locVars, inlineVars, moreVars>>

notSim == <<mergeVars, confVars, adapterVars, pipeVars, locVars, inlineVars, moreVars>>

notConf == <<mergeVars, simVars, adapterVars, pipeVars, locVars, inlineVars, moreVars>>

notAdapter == <<mergeVars, simVars, confVars, pipeVars, locVars, inlineVars, moreVars>>

notPipe == <<mergeVars, simVars, confVars, adapterVars, locVars, inlineVars, moreVars>>

notText == <<mergeVars, simVars, confVars, adapterVars, pipeVars, moreVars>>

notMore == <<mergeVars, simVars, confVars, adapterVars, pipeVars, locVars, inlineVars>>

notParse == <<notMore, roleVars, storeVars, jobVars>>

notRole == <<notMore, parseVars, storeVars, jobVars>>

notStore == <<notMore, parseVars, roleVars, jobVars>>

notJob == <<notMore, parseVars, roleVars, storeVars>>

-----------------------------------------------------------------------------
(* Merge engine run step by step *)

MergeInit ==
    /\ citations \in InputLists
    /\ merged = <<>>
    /\ pos = 1
    /\ home = <<>>
    /\ run = 1
    /\ firstOut = <<>>
    /\ mpc = "loop"
    /\ SimIdle /\ ConfIdle /\ AdapterIdle /\ PipeIdle /\ TextIdle /\ MoreIdle

\* one iteration of "for citation in citations"
MergeIter ==
    /\ mpc = "loop"
    /\ pos <= Len(citations)
    /\ LET k == FirstSimilar(citations[pos], merged)
       IN  /\ merged' = MergeOne(merged, citations[pos])
           /\ home' = Append(home, IF k /= 0 THEN k ELSE Len(merged) + 1)
    /\ pos' = pos + 1
    /\ UNCHANGED <<citations, run, firstOut, mpc, notMerge>>

\* "return merged" (also the early "return []" for an empty argument)
MergeReturn ==
    /\ mpc = "loop"
    /\ pos > Len(citations)
    /\ mpc' = "returned"
    /\ UNCHANGED <<citations, merged, pos, home, run, firstOut, notMerge>>

\* the engine is called again on the list it returned
MergeAgain ==
    /\ mpc = "returned"
    /\ run = 1
    /\ firstOut' = merged
    /\ citations' = merged
    /\ merged' = <<>>
    /\ pos' = 1
    /\ home' = <<>>
    /\ run' = 2
    /\ mpc' = "loop"
    /\ UNCHANGED notMerge

MergeNext == MergeIter \/ MergeReturn \/ MergeAgain

SpecMerge == MergeInit /\ [][MergeNext]_vars

-----------------------------------------------------------------------------
(* The two similarity decisions applied to a pair in both orders *)

SimInit ==
    /\ cit1 \in SimPool
    /\ cit2 \in SimPool
    /\ sim12 = <<0, 1>> /\ sim21 = <<0, 1>>
    /\ same12 = FALSE /\ same21 = FALSE
    /\ spc = "start"
    /\ MergeIdle /\ ConfIdle /\ AdapterIdle /\ PipeIdle /\ TextIdle /\ MoreIdle

Compare ==
    /\ spc = "start"
    /\ sim12' = ce_calculate_similarity(cit1, cit2)
    /\ sim21' = ce_calculate_similarity(cit2, cit1)
    /\ same12' = are_similar_citations(cit1, cit2)
    /\ same21' = are_similar_citations(cit2, cit1)
    /\ spc' = "compared"
    /\ UNCHANGED <<cit1, cit2, notSim>>

SimNext == Compare

SpecSim == SimInit /\ [][SimNext]_vars

-----------------------------------------------------------------------------
(* The confidence scorer applied to a capture, then to the capture with one
   more field *)

ScoreOf(p) ==
    calculate_extraction_confidence(p.title, p.authors, p.year, p.journal, p.doi, p.raw_text)

ConfInit ==
    /\ parsed \in ParsedInputs
    /\ score = 0
    /\ prevScore = 0
    /\ supplied = ""
    /\ cpc = "start"
    /\ MergeIdle /\ SimIdle /\ AdapterIdle /\ PipeIdle /\ TextIdle /\ MoreIdle

ScoreCapture ==
    /\ cpc = "start"
    /\ score' = ScoreOf(parsed)
    /\ prevScore' = ScoreOf(parsed)
    /\ cpc' = "scored"
    /\ UNCHANGED <<parsed, supplied, notConf>>

\* the same capture with the field filled in is scored
Rescore(p, field) ==
    /\ cpc = "scored"
    /\ parsed' = p
    /\ supplied' = field
    /\ prevScore' = score
    /\ score' = ScoreOf(p)
    /\ UNCHANGED <<cpc, notConf>>

SupplyAuthors ==
    /\ parsed.authors = <<>>
    /\ Rescore([parsed EXCEPT !.authors = <<AuthorS>>], "authors")

SupplySecondAuthor ==
    /\ Len(parsed.authors) = 1
    /\ Rescore([parsed EXCEPT !.authors = Append(parsed.authors, AuthorK)], "second_author")

SupplyYear ==
    /\ parsed.year = 0
    /\ \E y \in {1900, 2020, 2030} : Rescore([parsed EXCEPT !.year = y], "year")

SupplyJournal ==
    /\ parsed.journal = <<>>
    /\ \E j \in {JournalN, JournalS} : Rescore([parsed EXCEPT !.journal = j], "journal")

SupplyDoi ==
    /\ parsed.doi = ""
    /\ Rescore([parsed EXCEPT !.doi = "10.1/abc"], "doi")

ConfNext ==
    \/ ScoreCapture
    \/ SupplyAuthors
    \/ SupplySecondAuthor
    \/ SupplyYear
    \/ SupplyJournal
    \/ SupplyDoi

SpecConf == ConfInit /\ [][ConfNext]_vars

-----------------------------------------------------------------------------
(* One source adapter call against a provider that answers each request
   with any of CallOutcomes *)

AdapterInit ==
    /\ areq \in [title : {ReqTitle}, doi : {"", "10.1/abc"}]
    /\ adapter \in Adapters
    /\ apc = IF adapter = "enh_crossref" THEN "call"
             ELSE IF areq.doi /= "" THEN "doi" ELSE "search"
    /\ awork = NoWork
    /\ aresult = <<>>
    /\ araised = FALSE
    /\ afaults = {}
    /\ MergeIdle /\ SimIdle /\ ConfIdle /\ PipeIdle /\ TextIdle /\ MoreIdle

\* the adapter returns result
AdapterReturn(result) ==
    /\ aresult' = result
    /\ apc' = "done"
    /\ UNCHANGED <<areq, adapter, araised, notAdapter>>

\* enhanced_citation_extractor._extract_from_crossref: one request (the DOI
\* record, or a title search with rows=1), then the conversion loop
EnhCrossrefCall ==
    /\ adapter = "enh_crossref"
    /\ apc = "call"
    /\ \E outcome \in CallOutcomes, hits \in HitLists, refs \in RefLists :
        LET work == IF outcome /= "ok" THEN NoWork
                    ELSE IF areq.doi /= "" THEN [by |-> "doi", title |-> areq.title]
                    ELSE IF hits /= <<>> THEN [by |-> "first_hit", title |-> hits[1].title]
                    ELSE NoWork
            references == IF work.by = "none" THEN <<>> ELSE refs
        IN  /\ awork' = work
            /\ afaults' = (IF outcome /= "ok" THEN {outcome} ELSE {})
                          \cup (IF AnyBad(references) THEN {"record"} ELSE {})
            /\ AdapterReturn(enh_extract_references(references, "crossref"))

\* openalex_service.get_work_by_doi, called first when a doi is given
OpenAlexGetWorkByDoi ==
    /\ adapter = "ce_openalex"
    /\ apc = "doi"
    /\ \E outcome \in CallOutcomes :
        /\ awork' = IF outcome = "ok" THEN [by |-> "doi", title |-> areq.title] ELSE NoWork
        /\ afaults' = afaults \cup (IF outcome /= "ok" THEN {outcome} ELSE {})
        /\ apc' = IF outcome = "ok" THEN "refs" ELSE "search"
    /\ UNCHANGED <<areq, adapter, aresult, araised, notAdapter>>

\* openalex_service.search_work_by_title, the fallback after a DOI lookup
\* that gave nothing (an answered search supersedes the failed DOI lookup);
\* without a work the adapter returns []
OpenAlexSearchByTitle ==
    /\ adapter = "ce_openalex"
    /\ apc = "search"
    /\ \E outcome \in CallOutcomes, hits \in HitLists :
        LET k == IF outcome = "ok" THEN find_best_title_match(areq.title, hits) ELSE 0
        IN  /\ afaults' = IF outcome /= "ok" THEN afaults \cup {outcome} ELSE {}
            /\ IF k /= 0
               THEN /\ awork' = [by |-> "title", title |-> hits[k].title]
                    /\ apc' = "refs"
                    /\ UNCHANGED <<areq, adapter, aresult, araised, notAdapter>>
               ELSE /\ awork' = NoWork
                    /\ AdapterReturn(<<>>)

\* openalex_service.get_work_references and the conversion of
\* citation_extractor._extract_from_openalex
OpenAlexGetReferences ==
    /\ adapter = "ce_openalex"
    /\ apc = "refs"
    /\ \E outcome \in CallOutcomes, refs \in RefLists :
        LET references == IF outcome = "ok" THEN refs ELSE <<>>
        IN  /\ afaults' = afaults \cup (IF outcome /= "ok" THEN {outcome} ELSE {})
                                  \cup (IF AnyBad(references) THEN {"record"} ELSE {})
            /\ AdapterReturn(openalex_extract_references(references))
    /\ UNCHANGED awork

\* semantic_scholar_service.get_paper_by_doi
S2GetPaperByDoi ==
    /\ adapter = "s2_service"
    /\ apc = "doi"
    /\ \E outcome \in CallOutcomes :
        /\ awork' = IF outcome = "ok" THEN [by |-> "doi", title |-> areq.title] ELSE NoWork
        /\ afaults' = afaults \cup (IF outcome /= "ok" THEN {outcome} ELSE {})
        /\ apc' = IF outcome = "ok" THEN "refs" ELSE "search"
    /\ UNCHANGED <<areq, adapter, aresult, araised, notAdapter>>

\* semantic_scholar_service.search_paper_by_title
S2SearchByTitle ==
    /\ adapter = "s2_service"
    /\ apc = "search"
    /\ \E outcome \in CallOutcomes, hits \in HitLists :
        LET k == IF outcome = "ok" THEN search_paper_by_title(areq.title, hits) ELSE 0
        IN  /\ afaults' = IF outcome /= "ok" THEN afaults \cup {outcome} ELSE {}
            /\ IF k /= 0
               THEN /\ awork' = [by |-> IF FracGT(title_jaccard(areq.title, hits[k].title), 7, 10)
                                        THEN "title" ELSE "first_hit",
                                 title |-> hits[k].title]
                    /\ apc' = "refs"
                    /\ UNCHANGED <<areq, adapter, aresult, araised, notAdapter>>
               ELSE /\ awork' = NoWork
                    /\ AdapterReturn(<<>>)

\* semantic_scholar_service.get_paper_references and the conversion of
\* extract_citations_from_semantic_scholar
S2GetReferences ==
    /\ adapter = "s2_service"
    /\ apc = "refs"
    /\ \E outcome \in CallOutcomes, refs \in RefLists :
        LET references == IF outcome = "ok" THEN refs ELSE <<>>
        IN  /\ afaults' = afaults \cup (IF outcome /= "ok" THEN {outcome} ELSE {})
                                  \cup (IF AnyBad(references) THEN {"record"} ELSE {})
            /\ AdapterReturn(s2_extract_references(references))
    /\ UNCHANGED awork

AdapterNext ==
    \/ EnhCrossrefCall
    \/ OpenAlexGetWorkByDoi
    \/ OpenAlexSearchByTitle
    \/ OpenAlexGetReferences
    \/ S2GetPaperByDoi
    \/ S2SearchByTitle
    \/ S2GetReferences

SpecAdapter == AdapterInit /\ [][AdapterNext]_vars

-----------------------------------------------------------------------------
(* Claims on the source adapters *)

\* C5: an adapter never raises, and after any provider failure (connection
\* error, timeout, non-200 status, malformed payload, a record that fails to
\* convert) it returns the empty list, not a partial one.
C5_FailureGivesEmptyList ==
    apc = "done" =>
        /\ ~araised
        /\ (afaults /= {} => aresult = <<>>)

\* C6: an adapter yields candidates only for a document found by exact DOI
\* or by a title scoring >= 0.7 against the requested title; it never uses
\* a search hit below that.
C6_MatchedOrEmpty ==
    (apc = "done" /\ aresult /= <<>>) =>
        \/ awork.by = "doi"
        \/ FracGE(title_jaccard(areq.title, awork.title), 7, 10)

-----------------------------------------------------------------------------
(* One extraction request: extract_citations_comprehensive *)

PipeInit ==
    /\ doc \in Docs
    /\ preq \in { [title |-> ReqTitle, doi |-> ""],
                  [title |-> <<>>, doi |-> ""] }
    /\ ppc = "phase1"
    /\ pdf_citations = <<>>
    /\ tasks = NoTasks
    /\ all_citations = <<>>
    /\ pout = <<>>
    /\ praised = FALSE
    /\ MergeIdle /\ SimIdle /\ ConfIdle /\ AdapterIdle /\ TextIdle /\ MoreIdle

\* Phase 1: "if pdf_path and Path(pdf_path).exists()" with its try / except
Phase1Pdf ==
    /\ ppc = "phase1"
    /\ LET r == extract_from_pdf(doc)
           got == IF doc.pdf = "none" \/ r.raised THEN <<>> ELSE r.citations
       IN  /\ pdf_citations' = got
           /\ all_citations' = all_citations \o got
    /\ ppc' = "phase2"
    /\ UNCHANGED <<doc, preq, tasks, pout, praised, notPipe>>

\* Phase 2: the three adapter coroutines are created when there is a doi or
\* a title, and awaited together
LaunchAdapters ==
    /\ ppc = "phase2"
    /\ IF preq.doi /= "" \/ preq.title /= <<>>
       THEN /\ tasks' = [i \in 1..3 |-> PendingTask]
            /\ ppc' = "gather"
       ELSE /\ tasks' = NoTasks
            /\ ppc' = "merge"
    /\ UNCHANGED <<doc, preq, pdf_citations, all_citations, pout, praised, notPipe>>

\* one adapter coroutine finishes: with its list (the whole reference list,
\* or what was converted before a provider failure), or with an exception
\* that escaped its handler
AdapterResolve(i) ==
    /\ ppc = "gather"
    /\ tasks[i].state = "pending"
    /\ \/ \E outcome \in CallOutcomes \ {"ok"} :
            \* the lookup failed: the handler returns the empty list
            tasks' = [tasks EXCEPT ![i] = [PendingTask EXCEPT !.state = "returned",
                                                              !.failed = TRUE]]
       \/ \* the provider answered and has no such document
          tasks' = [tasks EXCEPT ![i] = [PendingTask EXCEPT !.state = "returned"]]
       \/ \E refs \in DistinctRefLists :
            \* the provider located the document and listed its references
            tasks' = [tasks EXCEPT ![i] =
                        [state   |-> "returned",
                         result  |-> enh_extract_references(refs, TaskSource(i)),
                         matched |-> TRUE,
                         failed  |-> AnyBad(refs)]]
       \/ tasks' = [tasks EXCEPT ![i] = [PendingTask EXCEPT !.state = "raised", !.failed = TRUE]]
    /\ UNCHANGED <<doc, preq, ppc, pdf_citations, all_citations, pout, praised, notPipe>>

\* a wait that returns at the first task that is done
GatherReturn_firstCompleted ==
    /\ ppc = "gather"
    /\ \E i \in 1..3 : tasks[i].state /= "pending"
    /\ all_citations' = all_citations \o GatheredLists(tasks, 3)
    /\ ppc' = "merge"
    /\ UNCHANGED <<doc, preq, pdf_citations, tasks, pout, praised, notPipe>>

\* asyncio.gather(*api_tasks, return_exceptions=True) returns once every
\* task is done; the result loop follows without another await
GatherReturn ==
    /\ ppc = "gather"
    /\ \A i \in 1..3 : tasks[i].state /= "pending"
    /\ all_citations' = all_citations \o GatheredLists(tasks, 3)
    /\ ppc' = "merge"
    /\ UNCHANGED <<doc, preq, pdf_citations, tasks, pout, praised, notPipe>>

\* Phase 3: merge, sort by source, return
MergeAndReturn ==
    /\ ppc = "merge"
    /\ pout' = SortBySource(merge_and_deduplicate(all_citations))
    /\ ppc' = "done"
    /\ UNCHANGED <<doc, preq, pdf_citations, tasks, all_citations, praised, notPipe>>

PipeNext ==
    \/ Phase1Pdf
    \/ LaunchAdapters
    \/ \E i \in 1..3 : AdapterResolve(i)
    \/ GatherReturn
    \/ MergeAndReturn

SpecPipe == PipeInit /\ [][PipeNext]_vars

-----------------------------------------------------------------------------
(* Claims on the extraction request *)

\* no adapter of the request located the document
NoProviderMatch == \A i \in 1..Len(tasks) : ~tasks[i].matched

\* the candidates of the adapters that succeeded, in task order
RECURSIVE SucceededLists(_, _)
SucceededLists(tasks_, n) ==
    IF n = 0 THEN <<>>
    ELSE SucceededLists(tasks_, n - 1)
            \o (IF tasks_[n].state = "returned" /\ ~tasks_[n].failed
                THEN tasks_[n].result ELSE <<>>)

C8_BuiltFromSucceededAdapters ==
    ppc = "done" =>
        /\ ~praised
        /\ pout = SortBySource(merge_and_deduplicate(
                        pdf_citations \o SucceededLists(tasks, Len(tasks))))

\* C15: merging starts only after every adapter call launched for the
\* request has resolved, and every list an adapter returned is in the list
\* handed to the merge: nothing arrives later and is lost.
C15_MergeAfterAllResolved ==
    ppc \in {"merge", "done"} =>
        /\ \A i \in 1..Len(tasks) : tasks[i].state /= "pending"
        /\ all_citations = pdf_citations \o GatheredLists(tasks, Len(tasks))

\* merging is about to start after three adapter calls, one of which raised
\* and two of which returned candidates, all of them in all_citations
C15_Witness ==
    /\ ppc = "merge" /\ Len(tasks) = 3
    /\ tasks[1].state = "raised"
    /\ tasks[2].state = "returned" /\ tasks[2].result /= <<>>
    /\ tasks[3].state = "returned" /\ tasks[3].result /= <<>>
    /\ Len(all_citations) = Len(tasks[2].result) + Len(tasks[3].result)

\* C16: for a text with a located bibliography that has an entry matching a
\* grammar the request ends without error and every candidate parsed from
\* the bibliography appears in, or is merged into, an entry of the canonical
\* list, also when no provider matches.
C16_TextCandidatesReachList ==
    (ppc = "done" /\ doc.pdf = "readable" /\ doc.hasRefs) =>
        /\ ~praised
        /\ \A k \in 1..Len(doc.entries) :
                \E e \in 1..Len(pout) :
                    \/ pout[e].title = doc.entries[k].title
                    \/ are_similar_citations(doc.entries[k], pout[e])

-----------------------------------------------------------------------------
(* The Locator, and extract_inline_citations with the linking that follows *)

LocInit ==
    /\ ldoc \in LocDocs
    /\ lpc = "headings"
    /\ all_matches = <<>>
    /\ best_match = NoBest
    /\ lsection = NoSection
    /\ InlineIdle
    /\ MergeIdle /\ SimIdle /\ ConfIdle /\ AdapterIdle /\ PipeIdle /\ MoreIdle

\* the loop over patterns; without a match the dense fallback is returned
CollectMatches ==
    /\ lpc = "headings"
    /\ all_matches' = AllMatches(ldoc)
    /\ IF AllMatches(ldoc) = <<>>
       THEN /\ lsection' = find_citation_dense_section(ldoc)
            /\ lpc' = "located"
       ELSE /\ lsection' = lsection
            /\ lpc' = "choose"
    /\ UNCHANGED <<ldoc, best_match, inlineVars, notText>>

\* valid_matches and the choice of best_match
ChooseBest ==
    /\ lpc = "choose"
    /\ best_match' = BestMatch(ldoc, all_matches)
    /\ lpc' = "cut"
    /\ UNCHANGED <<ldoc, all_matches, lsection, inlineVars, notText>>

\* the end of the section, the density test and the return
CutSection ==
    /\ lpc = "cut"
    /\ lsection' = SectionFrom(ldoc, best_match)
    /\ lpc' = "located"
    /\ UNCHANGED <<ldoc, all_matches, best_match, inlineVars, notText>>

LocNext ==
    \/ CollectMatches
    \/ ChooseBest
    \/ CutSection

SpecLocate == LocInit /\ [][LocNext]_vars

InlineInit ==
    /\ ldoc \in InlineDocs
    /\ lpc = "headings"
    /\ all_matches = <<>>
    /\ best_match = NoBest
    /\ lsection = NoSection
    /\ ipc = "locate"
    /\ ipat = 0
    /\ found = {}
    /\ inline_citations = <<>>
    /\ reference_entries = <<>>
    /\ citation_links = <<>>
    /\ MergeIdle /\ SimIdle /\ ConfIdle /\ AdapterIdle /\ PipeIdle /\ MoreIdle

\* extract_inline_citations has ref_section and main_text and enters
\* _extract_inline_citations_from_text
EnterScan ==
    /\ ipc = "locate"
    /\ lpc = "located"
    /\ ipc' = "scan"
    /\ ipat' = 1
    /\ UNCHANGED <<found, inline_citations, reference_entries, citation_links,
                   locVars, notText>>

\* one pass of "for pattern, pattern_type in patterns"; behind the last
\* pattern the duplicates are removed, the list is sorted and returned
ScanPattern ==
    /\ ipc = "scan"
    /\ LET now == found \cup FoundBy(ipat, ldoc, MainTextLast(ldoc, lsection))
       IN  /\ found' = now
           /\ IF ipat < Len(MarkerPatterns)
              THEN /\ ipat' = ipat + 1
                   /\ UNCHANGED <<ipc, inline_citations>>
              ELSE /\ ipat' = ipat
                   /\ inline_citations' = UniqueSorted(now)
                   /\ ipc' = "entries"
    /\ UNCHANGED <<reference_entries, citation_links, locVars, notText>>

\* reference_entries and the return of extract_inline_citations
ExtractEntries ==
    /\ ipc = "entries"
    /\ reference_entries' = IF lsection.kind = "none" THEN <<>>
                            ELSE EntryNumbers(ldoc, lsection.from, lsection.upto)
    /\ ipc' = "returned"
    /\ UNCHANGED <<ipat, found, inline_citations, citation_links, locVars, notText>>

\* link_citations_to_references on what extract_inline_citations returned
LinkCitations ==
    /\ ipc = "returned"
    /\ citation_links' = LinksOf(inline_citations, LookupKeys(reference_entries))
    /\ ipc' = "linked"
    /\ UNCHANGED <<ipat, found, inline_citations, reference_entries, locVars, notText>>

InlineNext ==
    \/ CollectMatches
    \/ ChooseBest
    \/ CutSection
    \/ EnterScan
    \/ ScanPattern
    \/ ExtractEntries
    \/ LinkCitations

SpecInline == InlineInit /\ [][InlineNext]_vars

-----------------------------------------------------------------------------
(* The Parser: _extract_with_regex on the matches of one references section *)

ParseInit ==
    /\ pmatches \in MatchLists
    /\ pidx = 1
    /\ pcitations = <<>>
    /\ xpc = "loop"
    /\ CoreIdle /\ MoreIdleBut("parse")

\* one iteration of "for match in matches"
ParseMatch ==
    /\ xpc = "loop"
    /\ pidx <= Len(pmatches)
    /\ pcitations' = pcitations \o ParsedFrom(pmatches[pidx])
    /\ pidx' = pidx + 1
    /\ UNCHANGED <<pmatches, xpc, notParse>>

\* _deduplicate_citations, the sort by confidence and "return unique_citations"
ParseReturn ==
    /\ xpc = "loop"
    /\ pidx > Len(pmatches)
    /\ pcitations' = SortByConfidence(deduplicate_citations(pcitations))
    /\ xpc' = "returned"
    /\ UNCHANGED <<pmatches, pidx, notParse>>

ParseNext == ParseMatch \/ ParseReturn

SpecParse == ParseInit /\ [][ParseNext]_vars

-----------------------------------------------------------------------------
(* Claims on the Parser *)

\* C23: a candidate is emitted for a match only if its cleaned title has 8
\* or more characters and it ends up with a year of 1900..2030 or a non-empty
\* author list.
C23_EmittedHasYearOrAuthors ==
    \A k \in 1..Len(pcitations) :
        /\ Len(pcitations[k].title) >= 8
        /\ pcitations[k].year /= 0 \/ pcitations[k].authors /= <<>>

-----------------------------------------------------------------------------
(* The role classifier applied to one context *)

RoleInit ==
    /\ rbefore \in RoleBefore
    /\ rafter \in RoleAfter
    /\ rsentence \in RoleSentences
    /\ rtype = ""
    /\ rpc = "start"
    /\ CoreIdle /\ MoreIdleBut("role")

Classify ==
    /\ rpc = "start"
    /\ rtype' = classify_citation_type(rbefore, rafter, rsentence)
    /\ rpc' = "classified"
    /\ UNCHANGED <<rbefore, rafter, rsentence, notRole>>

RoleNext == Classify

SpecRole == RoleInit /\ [][RoleNext]_vars

\* C26: a context whose only keyword-bearing word is a keyword of a role is
\* classified as that role ("unlike" as contrast), and a context without a
\* keyword gets the default role.
C26_EveryKeywordReachesItsRole ==
    rpc = "classified" =>
        /\ \A r \in 1..Len(RoleKeywords) :
                \A k \in 1..Len(RoleKeywords[r].keys) :
                    rsentence = RoleKeywords[r].keys[k] => rtype = RoleKeywords[r].role
        /\ rsentence = PlainSentence => rtype = "reference"

-----------------------------------------------------------------------------
(* api/citations.py: the two extraction endpoints replacing a paper's rows *)

\* what an extraction found for one reference: title, year (0 for None) and
\* confidence in hundredths
Found(t, y, c) == [title |-> t, year |-> y, confidence |-> c]

FoundSure == Found("a", 1999, 90)

FoundWeak == Found("b", 2020, 80)

\* a reference to a work of 1750, as a Crossref reference list may carry
FoundOld == Found("c", 1750, 90)

FoundPool == {FoundSure, FoundWeak, FoundOld}

Extractions == UNION {[1..n -> FoundPool] : n \in 0..MaxNew}

Directions == {"both", "references", "citations"}

Methods == {"comprehensive", "crossref", "other"}

\* CitationBase: cited_year is None or within 1800..2100 and confidence_score
\* within 0.0..1.0; CitationCreate(...) raises ValidationError otherwise
CitationCreateValid(c) ==
    /\ c.cited_year = 0 \/ (c.cited_year >= 1800 /\ c.cited_year <= 2100)
    /\ c.confidence_score >= 0 /\ c.confidence_score <= 100

\* the CitationCreate extract_citations builds from a relation
CreateFromRelation(r) ==
    [cited_title |-> r.title, cited_year |-> r.year,
     confidence_score |-> r.confidence, status |-> "verified"]

\* the CitationCreate extract_citations_legacy builds from a citation dict
CreateFromLegacy(r) ==
    [cited_title |-> r.title, cited_year |-> r.year,
     confidence_score |-> r.confidence,
     status |-> IF r.confidence > 80 THEN "verified" ELSE "pending"]

\* the save loop after delete_citations_by_paper has committed: every
\* create_citation commits its row, and the first CitationCreate that raises
\* ends the loop
RECURSIVE SaveLoop(_, _)
SaveLoop(creates, rows) ==
    IF creates = <<>> THEN [rows |-> rows, ok |-> TRUE]
    ELSE IF ~CitationCreateValid(Head(creates)) THEN [rows |-> rows, ok |-> FALSE]
    ELSE SaveLoop(Tail(creates), Append(rows, Head(creates)))

StoreInit ==
    /\ stored = <<>>
    /\ sbefore = <<>>
    /\ sreq = NoRequest
    /\ sresp = 0
    /\ CoreIdle /\ MoreIdleBut("store")

\* POST /extract/{paper_id} for the paper
extract_citations ==
    \E direction \in Directions, extracted_citations \in Extractions :
        LET references == IF direction \in {"both", "references"} THEN extracted_citations ELSE <<>>
            creates == [k \in 1..Len(references) |-> CreateFromRelation(references[k])]
            out == SaveLoop(creates, <<>>)
        IN  /\ sreq' = [endpoint |-> "extract", direction |-> direction,
                        method |-> "", extracted |-> references]
            /\ sbefore' = stored
            /\ stored' = out.rows
            /\ sresp' = IF out.ok THEN 200 ELSE 500
            /\ UNCHANGED notStore

\* the legacy extraction endpoint for the paper
extract_citations_legacy ==
    \E method \in Methods, extracted_citations \in Extractions :
        LET creates == [k \in 1..Len(extracted_citations) |-> CreateFromLegacy(extracted_citations[k])]
            out == SaveLoop(creates, <<>>)
        IN  /\ sreq' = [endpoint |-> "legacy", direction |-> "",
                        method |-> method,
                        extracted |-> IF method = "other" THEN <<>> ELSE extracted_citations]
            /\ sbefore' = stored
            /\ IF method = "other"
                  THEN stored' = stored /\ sresp' = 400
                  ELSE IF extracted_citations = <<>>
                          THEN stored' = stored /\ sresp' = 404
                          ELSE /\ stored' = out.rows
                               /\ sresp' = IF out.ok THEN 200 ELSE 500
            /\ UNCHANGED notStore

StoreNext == extract_citations \/ extract_citations_legacy

SpecStore == StoreInit /\ [][StoreNext]_vars

\* C28: a request that ends in an error response leaves the paper's stored
\* citations exactly as they were when it arrived, and so does a legacy
\* request whose extraction finds nothing.
C28_ReplaceIsAllOrNothing ==
    /\ sresp >= 400 => stored = sbefore
    /\ (sreq.endpoint = "legacy" /\ sreq.extracted = <<>>) => stored = sbefore

-----------------------------------------------------------------------------
(* services/background_tasks.py and crud/job.py: one summary job and its runs *)

\* crud/job.py create_job
create_job == [status |-> "pending", progress |-> 0, started_at |-> 0, completed_at |-> 0]

\* crud/job.py update_job_status at time now; progress -1 stands for None
update_job_status(j, status, progress, now) ==
    [status |-> status,
     progress |-> IF progress /= -1 THEN progress ELSE j.progress,
     started_at |-> IF status = "processing" /\ j.started_at = 0
                       THEN now ELSE j.started_at,
     completed_at |-> IF status \in {"completed", "failed"} /\ j.completed_at = 0
                         THEN now ELSE j.completed_at]

start_job(j, now) == update_job_status(j, "processing", 0, now)

complete_job(j, now) == update_job_status(j, "completed", 100, now)

fail_job(j, now) == update_job_status(j, "failed", -1, now)

\* the test process_summary_generation returns on: job missing or not pending
NotPending_noCheck(j) == FALSE

NotPending(j) == j.status /= "pending"

Jobs == 1..MaxJobs

Runs == 1..MaxRuns

HasFreeRun(j) == \E u \in Runs : tpc[j][u] = "none"

FreeRun(j) ==
    CHOOSE u \in Runs : tpc[j][u] = "none" /\ \A v \in Runs : v < u => tpc[j][v] /= "none"

\* start_background_task for each job of js: asyncio.create_task for its
\* next free run
Scheduled(js) ==
    [j \in Jobs |-> IF j \in js THEN [tpc[j] EXCEPT ![FreeRun(j)] = "scheduled"]
                                ELSE tpc[j]]

JobInit ==
    /\ job = [j \in Jobs |-> NoJob]
    /\ tpc = [j \in Jobs |-> [t \in Runs |-> "none"]]
    /\ running = <<>>
    /\ calls = [j \in Jobs |-> 0]
    /\ clock = [j \in Jobs |-> 0]
    /\ CoreIdle /\ MoreIdleBut("job")

\* POST /{paper_id}/summary: creates a job and schedules its first run
generate_paper_summary ==
    /\ running = <<>>
    /\ \E j \in Jobs :
        /\ job[j] = NoJob
        /\ \A i \in Jobs : i < j => job[i] /= NoJob
        /\ job' = [job EXCEPT ![j] = create_job]
        /\ tpc' = Scheduled({j})
    /\ UNCHANGED <<running, calls, clock, notJob>>

\* process_pending_jobs: schedules a run for every job that is pending
process_pending_jobs ==
    LET pending_jobs == {j \in Jobs : job[j].status = "pending" /\ HasFreeRun(j)}
    IN  /\ running = <<>>
        /\ pending_jobs /= {}
        /\ tpc' = Scheduled(pending_jobs)
        /\ UNCHANGED <<job, running, calls, clock, notJob>>

\* process_summary_generation up to start_job
RunStart(j, t) ==
    /\ running = <<>>
    /\ tpc[j][t] = "scheduled"
    /\ IF NotPending(job[j])
          THEN /\ tpc' = [tpc EXCEPT ![j][t] = "done"]
               /\ UNCHANGED <<job, running, clock>>
          ELSE /\ job' = [job EXCEPT ![j] = start_job(job[j], clock[j] + 1)]
               /\ clock' = [clock EXCEPT ![j] = clock[j] + 1]
               /\ running' = <<j, t>>
               /\ tpc' = [tpc EXCEPT ![j][t] = "started"]
    /\ UNCHANGED <<calls, notJob>>

\* get_paper, and fail_job when the paper is gone
RunGetPaper(j, t) ==
    /\ running = <<j, t>>
    /\ tpc[j][t] = "started"
    /\ \E paper \in BOOLEAN :
         IF paper
            THEN /\ tpc' = [tpc EXCEPT ![j][t] = "progress"]
                 /\ UNCHANGED <<job, running, clock>>
            ELSE /\ job' = [job EXCEPT ![j] = fail_job(job[j], clock[j] + 1)]
                 /\ clock' = [clock EXCEPT ![j] = clock[j] + 1]
                 /\ running' = <<>>
                 /\ tpc' = [tpc EXCEPT ![j][t] = "done"]
    /\ UNCHANGED <<calls, notJob>>

\* progress 25, then the call of generate_summary, which gives up the loop
RunGenerate(j, t) ==
    /\ running = <<j, t>>
    /\ tpc[j][t] = "progress"
    /\ job' = [job EXCEPT ![j] = update_job_status(job[j], "processing", 25, clock[j] + 1)]
    /\ clock' = [clock EXCEPT ![j] = clock[j] + 1]
    /\ calls' = [calls EXCEPT ![j] = calls[j] + 1]
    /\ running' = <<>>
    /\ tpc' = [tpc EXCEPT ![j][t] = "awaiting"]
    /\ UNCHANGED notJob

\* generate_summary returns: progress 75; or it raises: fail_job
RunResume(j, t) ==
    /\ running = <<>>
    /\ tpc[j][t] = "awaiting"
    /\ clock' = [clock EXCEPT ![j] = clock[j] + 1]
    /\ \E raised \in BOOLEAN :
         IF raised
            THEN /\ job' = [job EXCEPT ![j] = fail_job(job[j], clock[j] + 1)]
                 /\ tpc' = [tpc EXCEPT ![j][t] = "done"]
                 /\ UNCHANGED running
            ELSE /\ job' = [job EXCEPT ![j] =
                               update_job_status(job[j], "processing", 75, clock[j] + 1)]
                 /\ tpc' = [tpc EXCEPT ![j][t] = "saving"]
                 /\ running' = <<j, t>>
    /\ UNCHANGED <<calls, notJob>>

\* update_paper and complete_job; or update_paper raises: fail_job
RunComplete(j, t) ==
    /\ running = <<j, t>>
    /\ tpc[j][t] = "saving"
    /\ clock' = [clock EXCEPT ![j] = clock[j] + 1]
    /\ \E raised \in BOOLEAN :
         job' = [job EXCEPT ![j] = IF raised THEN fail_job(job[j], clock[j] + 1)
                                             ELSE complete_job(job[j], clock[j] + 1)]
    /\ tpc' = [tpc EXCEPT ![j][t] = "done"]
    /\ running' = <<>>
    /\ UNCHANGED <<calls, notJob>>

JobNext ==
    \/ generate_paper_summary
    \/ process_pending_jobs
    \/ \E j \in Jobs, t \in Runs : RunStart(j, t)
    \/ \E j \in Jobs, t \in Runs : RunGetPaper(j, t)
    \/ \E j \in Jobs, t \in Runs : RunGenerate(j, t)
    \/ \E j \in Jobs, t \in Runs : RunResume(j, t)
    \/ \E j \in Jobs, t \in Runs : RunComplete(j, t)

SpecJob == JobInit /\ [][JobNext]_vars

Terminal == {"completed", "failed"}

\* the status moves the claim allows
StatusMoves ==
    {<<"none", "pending">>, <<"pending", "processing">>,
     <<"processing", "processing">>,
     <<"processing", "completed">>, <<"processing", "failed">>}

\* C29: the status of a job only moves pending -> processing -> completed |
\* failed, a terminal status never changes, completed_at is set exactly when
\* the terminal status is reached and stays, and generate_summary is called
\* at most once for a job however many runs were scheduled for it.
C29_StatusMovesForwardOnce ==
    [][\A j \in Jobs :
        /\ job'[j] /= job[j] => <<job[j].status, job'[j].status>> \in StatusMoves
        /\ job[j].status \in Terminal => job'[j] = job[j]
        /\ (job'[j].completed_at /= 0) <=> (job'[j].status \in Terminal)
        /\ (job[j].status \notin Terminal /\ job'[j].status \in Terminal)
              => job'[j].completed_at = clock'[j]
        /\ calls'[j] <= 1]_vars

\* two runs were scheduled for the first job, both have returned, and the job
\* is completed after one call of generate_summary
C29_Witness ==
    /\ \A t \in {1, 2} : tpc[1][t] = "done"
    /\ job[1].status = "completed"
    /\ calls[1] = 1

-----------------------------------------------------------------------------
(* Claims on the inline citation linker and the Locator *)

\* the document of Scenario D: the marker [3,5-7] in the body, and a
\* bibliography numbered 1..7
ScenarioD == <<BodyS, MarkerLine(MarkerD), HRef, Bib(7)>>

\* C11: the marker [3,5-7] is extracted as one marker with the referenced
\* numbers 3, 5, 6, 7, and linking it against the bibliography numbered 1..7
\* gives four resolved links.
C11_MixedMarkerFourLinks ==
    (ipc = "linked" /\ ldoc = ScenarioD) =>
        /\ Len(inline_citations) = 1
        /\ inline_citations[1].citation_numbers = <<3, 5, 6, 7>>
        /\ Len(citation_links) = 4
        /\ \A k \in 1..Len(citation_links) : citation_links[k].resolved

\* C12: when heading matches exist both inside the first 25% of the text and
\* beyond it, the match the Locator selects starts beyond the first 25%, and
\* a section it cuts starts at the end of that heading; for ScenarioC (an
\* early heading line and the real heading at 81%) the section returned
\* starts at the later heading.
C12_LateHeadingSelected ==
    (/\ lpc \in {"cut", "located"}
     /\ \E k \in 1..Len(all_matches) : ~BeyondThreshold(ldoc, all_matches[k])
     /\ \E k \in 1..Len(all_matches) : BeyondThreshold(ldoc, all_matches[k])) =>
        /\ BeyondThreshold(ldoc, best_match)
        /\ (lpc = "located" /\ lsection.kind = "section" =>
                lsection.start = Offset(ldoc, best_match.block + 1))
        /\ (lpc = "located" /\ ldoc = ScenarioC =>
                lsection.kind = "section" /\ lsection.start = 1284)

\* ScenarioC was located: the later heading (block 4) was selected and the
\* section starts behind it
C12_Witness ==
    /\ lpc = "located" /\ ldoc = ScenarioC
    /\ ~BeyondThreshold(ldoc, all_matches[1])
    /\ best_match.block = 4
    /\ lsection.kind = "section" /\ lsection.start = 1284 /\ lsection.stop = 1564

\* C24: when no heading match starts beyond the first 25% of the text, the
\* Locator selects the match with the greatest start offset among all matches.
C24_LastOccurrenceWhenAllEarly ==
    (/\ lpc \in {"cut", "located"}
     /\ all_matches /= <<>>
     /\ \A k \in 1..Len(all_matches) : ~BeyondThreshold(ldoc, all_matches[k])) =>
        \A k \in 1..Len(all_matches) :
            Offset(ldoc, all_matches[k].block) <= Offset(ldoc, best_match.block)

\* the end headings that lie more than 500 characters behind the end of the
\* heading block b
QualifyingEnds(d, b) ==
    {i \in (b + 1)..Len(d) :
        d[i].kind = "end" /\ Offset(d, i) - SectionStart(d, [block |-> b]) > 500}

\* C25: the located section ends at the nearest end heading, of whichever
\* kind, that lies more than 500 characters behind its start, and at the end
\* of the text when there is none.
C25_EndsAtNearestQualifyingHeading ==
    (lpc = "located" /\ lsection.kind = "section") =>
        lsection.upto =
            IF QualifyingEnds(ldoc, best_match.block) = {} THEN Len(ldoc) + 1
            ELSE CHOOSE i \in QualifyingEnds(ldoc, best_match.block) :
                    \A j \in QualifyingEnds(ldoc, best_match.block) : i <= j

RECURSIVE NumberCount(_)
\* the sum of the markers' referenced-number counts
NumberCount(inline_) ==
    IF inline_ = <<>> THEN 0
    ELSE Len(inline_[1].citation_numbers) + NumberCount(Tail(inline_))

\* the numbers of the links that belong to the marker at position p, in order
LinkedNumbers(p) ==
    LET own == SelectSeq(citation_links, LAMBDA l : l.position = p)
    IN  [k \in 1..Len(own) |-> own[k].cite_num]

\* C27: the linker emits exactly one link per marker and referenced number,
\* in marker order, so the number of links is the sum of the markers' number
\* counts; a link's confidence is 1.0 exactly when an entry with that
\* sequence number exists and 0.0 otherwise.
C27_OneLinkPerNumber ==
    ipc = "linked" =>
        /\ Len(citation_links) = NumberCount(inline_citations)
        /\ \A m \in 1..Len(inline_citations) :
                LinkedNumbers(inline_citations[m].position)
                    = inline_citations[m].citation_numbers
        /\ \A j, k \in 1..Len(citation_links) :
                j < k => citation_links[j].position <= citation_links[k].position
        /\ \A k \in 1..Len(citation_links) :
                /\ citation_links[k].confidence \in {0, 100}
                /\ citation_links[k].confidence = 100
                        <=> \E e \in 1..Len(reference_entries) :
                                reference_entries[e] = citation_links[k].cite_num

\* two markers were linked, one with several numbers, and one number has an
\* entry while another has none
C27_Witness ==
    /\ ipc = "linked"
    /\ Len(inline_citations) = 2
    /\ \E m \in 1..2 : Len(inline_citations[m].citation_numbers) >= 2
    /\ \E j, k \in 1..Len(citation_links) :
            citation_links[j].confidence = 100 /\ citation_links[k].confidence = 0

\* C30: every marker the extractor returns has a non-empty list of
\* referenced numbers, in ascending order; a bracket such as [5-3] never
\* yields a marker without numbers.
C30_MarkersHaveNumbers ==
    ipc \in {"returned", "linked"} =>
        \A m \in 1..Len(inline_citations) :
            /\ inline_citations[m].citation_numbers /= <<>>
            /\ \A j, k \in 1..Len(inline_citations[m].citation_numbers) :
                    j < k => inline_citations[m].citation_numbers[j]
                                <= inline_citations[m].citation_numbers[k]

\* the markers of the whole text, whatever pattern finds them
AllMarkers(d) == UNION {FoundBy(k, d, Len(d)) : k \in 1..Len(MarkerPatterns)}

-----------------------------------------------------------------------------
(* Claims on the confidence scorer *)

\* C9: supplying a missing field (authors, a second author, year, a journal
\* longer than 5 characters, doi) never lowers the text-derived confidence.
C9_ConfidenceMonotone == cpc = "scored" => score >= prevScore

\* a field was supplied and the score rose
C9_Witness == cpc = "scored" /\ supplied = "year" /\ score = prevScore + 15

-----------------------------------------------------------------------------
(* Claims on the merge engine *)

MergeDone1 == run = 1 /\ mpc = "returned"

MergeDone2 == run = 2 /\ mpc = "returned"

\* C1: running the merge engine on its own output performs no merge and
\* returns that output unchanged.
C1_MergeIsFixedPoint ==
    MergeDone2 =>
        /\ merged = firstOut
        /\ home = [i \in 1..Len(firstOut) |-> i]

\* C2: any two candidates of the input that carry the same non-empty DOI
\* contribute to the same canonical entry.
C2_SameDoiSameEntry ==
    MergeDone1 =>
        \A i, j \in 1..Len(citations) :
            (citations[i].doi /= "" /\ citations[i].doi = citations[j].doi)
                => home[i] = home[j]

\* the "same work" decision, taken in either argument order
SameWork(c, d) == are_similar_citations(c, d) \/ are_similar_citations(d, c)

\* C3: no two distinct entries of one run's output are the same work.
C3_NoSameWorkInOutput ==
    MergeDone1 =>
        \A i, j \in 1..Len(merged) : i /= j => ~SameWork(merged[i], merged[j])

\* the value of field f of a record
FieldOf(c, f) ==
    CASE f = "title"   -> c.title
      [] f = "authors" -> c.authors
      [] f = "year"    -> c.year
      [] f = "doi"     -> c.doi
      [] f = "journal" -> c.journal

\* field f of the record is missing
FieldEmpty(c, f) ==
    CASE f = "year" -> c.year = 0
      [] f = "doi"  -> c.doi = ""
      [] OTHER      -> FieldOf(c, f) = <<>>

\* C13: every non-empty field of a canonical entry is the value supplied by
\* the highest-priority source, among the candidates merged into the entry,
\* that has the field, whatever the order of the candidates.
C13_FieldsFromMostTrusted ==
    MergeDone1 =>
        \A e \in 1..Len(merged) :
            \A f \in {"title", "authors", "year", "doi", "journal"} :
                LET holders == {i \in 1..Len(citations) :
                                    home[i] = e /\ ~FieldEmpty(citations[i], f)}
                    top == {i \in holders :
                                \A j \in holders :
                                    source_priority(citations[i].source)
                                        >= source_priority(citations[j].source)}
                IN  holders /= {} =>
                        \E i \in top : FieldOf(merged[e], f) = FieldOf(citations[i], f)

\* the candidates of the input that were merged into entry e
Contributors(e) == {i \in 1..Len(citations) : home[i] = e}

\* C21: after the merges every canonical entry's confidence is the maximum of
\* the confidences of the candidates merged into it, and lies in [0, 1].
C21_ConfidenceIsMax ==
    MergeDone1 =>
        \A e \in 1..Len(merged) :
            /\ merged[e].confidence >= 0 /\ merged[e].confidence <= 100
            /\ \E i \in Contributors(e) : merged[e].confidence = citations[i].confidence
            /\ \A i \in Contributors(e) : merged[e].confidence >= citations[i].confidence

\* an entry absorbed a later candidate of higher and one of lower confidence
C21_Witness ==
    /\ MergeDone1
    /\ \E e \in 1..Len(merged) :
        \E i, j, k \in Contributors(e) :
            /\ i < j /\ j < k
            /\ citations[j].confidence > citations[i].confidence
            /\ citations[k].confidence < citations[j].confidence

\* C22: a merge step only fills missing fields: a title, authors, year, doi
\* or journal that a canonical entry holds is not changed by any later merge
\* of the same run.
C22_FillOnly ==
    [][(mpc = "loop" /\ pos' = pos + 1) =>
            \A e \in 1..Len(merged) :
                \A f \in {"title", "authors", "year", "doi", "journal"} :
                    ~FieldEmpty(merged[e], f)
                        => FieldOf(merged'[e], f) = FieldOf(merged[e], f)]_vars

\* an entry kept its journal although a candidate of higher priority with a
\* different journal was merged into it
C22_Witness ==
    /\ MergeDone1
    /\ \E e \in 1..Len(merged) :
        \E i, j \in Contributors(e) :
            /\ i < j
            /\ citations[i].journal /= <<>> /\ citations[j].journal /= <<>>
            /\ citations[i].journal /= citations[j].journal
            /\ source_priority(citations[j].source) > source_priority(citations[i].source)
            /\ merged[e].journal = citations[i].journal

\* the two records carry different values in a field that both have
Disagree(c, d) ==
    \E f \in {"title", "authors", "year", "doi", "journal"} :
        /\ ~FieldEmpty(c, f) /\ ~FieldEmpty(d, f)
        /\ FieldOf(c, f) /= FieldOf(d, f)

\* C20: on a merge the canonical tag becomes the candidate's source only when
\* the candidate's priority is strictly higher, is unchanged when it is lower,
\* and at equal priority becomes "merged" only if the two records disagree on
\* a field, staying unchanged when they agree on every field both carry.
C20_ProvenanceRule ==
    (MergeDone1 /\ Len(citations) = 2 /\ home[2] = 1) =>
        LET current_priority == source_priority(citations[1].source)
            new_priority     == source_priority(citations[2].source)
        IN  /\ new_priority > current_priority
                => merged[1].source = citations[2].source
            /\ new_priority < current_priority
                => merged[1].source = citations[1].source
            /\ new_priority = current_priority
                => /\ merged[1].source = "merged"
                        => Disagree(citations[1], citations[2])
                   /\ ~Disagree(citations[1], citations[2])
                        => merged[1].source = citations[1].source

\* candidate c, which has a title like both entries, is strictly closer to
\* entry e than to entry f, both by the title similarity of
\* _are_similar_citations and by _calculate_similarity
Closer(c, e, f) ==
    LET te == calculate_string_similarity(Lower(c.title), Lower(e.title))
        tf == calculate_string_similarity(Lower(c.title), Lower(f.title))
        se == ce_calculate_similarity(c, e)
        sf == ce_calculate_similarity(c, f)
    IN  /\ HasTitles(c, e) /\ HasTitles(c, f)
        /\ te[1] * tf[2] > tf[1] * te[2]
        /\ se[1] * sf[2] > sf[1] * se[2]

\* C19: a candidate that is the same work as two canonical entries is merged
\* into the one it is most similar to, not into the first one in list order.
C19_MergedIntoBestMatch ==
    (/\ MergeDone1 /\ Len(citations) = 3
     /\ home[1] = 1 /\ home[2] = 2
     /\ are_similar_citations(citations[3], citations[1])
     /\ are_similar_citations(citations[3], citations[2])
     /\ Closer(citations[3], citations[2], citations[1]))
        => home[3] = 2

\* C10: Scenario A yields exactly one canonical entry that keeps the
\* provider's tag and carries the larger of the two confidences.
C10_ScenarioAOneEntry ==
    (MergeDone1 /\ citations = ScenarioA) =>
        /\ Len(merged) = 1
        /\ merged[1].source = ScenarioA[1].source
        /\ merged[1].confidence = Max(ScenarioA[1].confidence, ScenarioA[2].confidence)

-----------------------------------------------------------------------------
(* Claims on the similarity functions *)

\* C4: similarity(a, b) = similarity(b, a) and the same-work decision does
\* not depend on the argument order.
C4_SimilaritySymmetric ==
    spc = "compared" => (FracEQ(sim12, sim21) /\ same12 = same21)

\* C17: the similarity is the weighted mean renormalised over the components
\* present: a pair identical in title, authors and year scores 1, a pair with
\* only titles scores its title similarity, a pair with no component scores 0,
\* and every score lies in [0, 1].
C17_RenormalisedWeightedMean ==
    spc = "compared" =>
        /\ FracGE(sim12, 0, 1) /\ ~FracGT(sim12, 1, 1)
        /\ (/\ HasTitles(cit1, cit2) /\ HasAuthors(cit1, cit2) /\ HasYears(cit1, cit2)
            /\ cit1.title = cit2.title /\ cit1.authors = cit2.authors
            /\ cit1.year = cit2.year)
                => FracEQ(sim12, <<1, 1>>)
        /\ (HasTitles(cit1, cit2) /\ ~HasAuthors(cit1, cit2) /\ ~HasYears(cit1, cit2))
                => FracEQ(sim12, SequenceMatcherRatio(Lower(cit1.title), Lower(cit2.title)))
        /\ (~HasTitles(cit1, cit2) /\ ~HasAuthors(cit1, cit2) /\ ~HasYears(cit1, cit2))
                => FracEQ(sim12, <<0, 1>>)

\* C18: the merge threshold is inclusive: a pair whose title similarity is
\* 0.8 or more (4 of 5 distinct words shared, no other field) is the same work.
C18_ThresholdInclusive ==
    (/\ spc = "compared"
     /\ HasTitles(cit1, cit2)
     /\ FracGE(calculate_string_similarity(Lower(cit1.title), Lower(cit2.title)), 8, 10))
        => same12

====
